---- MODULE Spec2Model ----
(***************************************************************************)
(* Rule engine and source-driven content pipeline of novel-reader.         *)
(*                                                                         *)
(* A JavaScript string is modelled as a sequence of lexemes: each lexeme   *)
(* is a run of characters that the code under study never looks inside    *)
(* ("foo", ".title", "http:"), or one of the markers it searches for      *)
(* ("||", "&&", "##", "@", "@css:", "<p>", "{{key}}", ...).  The empty    *)
(* string is <<>>; an undefined rule is modelled by <<>> as well, since    *)
(* every use in the code tests it with `!rule`.                            *)
(***************************************************************************)
EXTENDS Integers, Sequences, FiniteSets, TLC

VARIABLES
    content,    \* AnalyzeRule.content / AnalyzeRule.$ : the loaded document
    baseUrl,    \* AnalyzeRule.baseUrl
    ruleA,      \* first alternative of the rule of the last call (its parts)
    comb,       \* combinator joining the alternatives: "none", "||" or "&&"
    ruleB,      \* second alternative (its parts)
    ruleOp,     \* last AnalyzeRule operation: "new", "setContent", "getStringList", ...
    results,    \* value returned by the last getStringList / getElements call
    ruleThrew,  \* TRUE when the last AnalyzeRule call threw
    urlImpl,    \* whose getAbsoluteUrl is applied: "AnalyzeRule" or "RuleParser"
    urlBase,    \* the base URL of that instance
    urlIn,      \* the url first passed to getAbsoluteUrl
    urlOnce,    \* getAbsoluteUrl(urlIn)
    urlOut,     \* the value returned by the last application
    urlApplied, \* how many times getAbsoluteUrl has been applied in a row
    urlThrew,   \* TRUE when an application threw
    urlTemplate, \* AnalyzeUrl.urlTemplate
    tplBase,    \* AnalyzeUrl.baseUrl
    key,        \* AnalyzeUrl.key : the search keyword
    page,       \* AnalyzeUrl.page
    headers,    \* AnalyzeUrl.headers : the source's JSON header string
    tplOp,      \* "new" until analyze() has returned, then "analyze"
    request,    \* the UrlOptions analyze() returned
    op,         \* the pipeline operation called
    source,     \* its BookSource
    arg,        \* its other argument: keyword, bookUrl, book or chapter
    response,   \* the page the server answers with, once the body arrives
    pc,         \* where the call stands: "idle", "fetching" (await fetch),
                \* "reading" (await response.text()), "recording" (await
                \* updateSourceRespondTime), "returned" or "rejected"
    outcome,    \* how the call went: "pending", "ok", or what failed
    sent,       \* the request handed to fetch
    fetches,    \* number of fetch calls issued
    timer,      \* TRUE while the timeout of fetchWithTimeout is armed
    extracted,  \* getChapterContent: the content before the cleanup
    books,      \* searchBooks: the local list `books`
    result,     \* the value the call resolved to
    respondWrites, \* number of completed updateSourceRespondTime writes
    json,       \* import: the entries of the JSON array given to the import
    bookSources, \* import: parseBookSourceJson(json).bookSources
    rssSources, \* import: parseBookSourceJson(json).rssSources
    imPc,       \* import: "new", "importing" (in the loop) or "done"
    imIndex,    \* import: number of entries of bookSources gone through
    stored,     \* import: the names of the rows written to book_sources
    count,      \* import: the count importBookSources returns
    callSource, \* concurrent searches: the BookSource of each call
    callPage,   \* the page the server answers each call with
    callPc,     \* where each call stands: "idle", "fetching", "recording", "returned"
    callOutcome, \* how each call went: "pending", "ok", "netError", "recordError"
    callResult, \* the value each call resolved to
    parsers,    \* the RuleParser objects: [doc, base] per binding `parser`
    bookLists,  \* the arrays bound to `books`
    readerBook, \* reader store: book, NoBook when null
    readerChapters, \* reader store: chapters, the titles of the open book's chapters
    currentChapterIndex, \* reader store
    currentChapter, \* reader store: a chapter title, "none" when null
    readerContent, \* reader store: content
    loading,    \* reader store
    useReplaceRule, \* reader store: config.useReplaceRule
    contentCache, \* table content_cache of the open book: content per chapter index
    sourceRows, \* table book_sources: the ids of its rows
    bookRows,   \* table books: the ids of its rows
    chapterRows, \* table chapters: the idx of the rows of the book
    durChapterIndex, \* table books: the persisted read progress of the book
    loads,      \* the loadChapter calls made so far, in call order: a frame each
    lastSetter, \* the call that last did set({ content }), 0 when none did
    cacheReads, \* number of getCachedContent calls
    chapterFetches, \* number of getChapterContent calls
    configRaced, \* updateConfig was called while a loadChapter call was pending
    searchKeyword, \* search store: keyword
    searchResults, \* search store: results, each book with the search() call it came from
    searchLoading, \* search store: loading
    searchingSources, \* search store: searchingSources
    searches,   \* the search() calls made so far, in call order: a frame each
    latest,     \* the last search() call that searched, 0 when none or after clear()
    ttsSpeaking, \* TTSService.state.speaking
    ttsPaused,  \* TTSService.state.paused
    speakPc,    \* where the speak() call of each caller stands
    speechQueue, \* expo-speech: the callers whose utterances are queued, head being spoken
    stoppedEvents, \* expo-speech: the callers whose onStopped is still to be delivered
    chapterPc,  \* where the speakChapter call stands
    chapterI,   \* speakChapter: i
    paragraphs, \* speakChapter: paragraphs
    started,    \* the indices passed to onParagraphChange, in order
    stopCalled, \* stop() was called from outside
    idleAtCall, \* the service was idle when speakChapter was called
    uiSpeaks,   \* number of speak() calls made from outside speakChapter
    jsCode,     \* executeJsRule: the snippet, as the references it evaluates
    jsContext,  \* executeJsRule: context
    jsHtml,     \* executeJsRule: html
    jsPc,       \* where the executeJsRule call stands
    jsAt,       \* the reference being evaluated
    jsReached,  \* what each reference evaluated so far was bound to
    jsRequests, \* the network requests the snippet made
    jsResult    \* what executeJsRule returned

concVars == <<callSource, callPage, callPc, callOutcome, callResult, parsers, bookLists>>

readerVars == <<readerBook, readerChapters, currentChapterIndex, currentChapter, readerContent, loading,
                useReplaceRule, contentCache, sourceRows, bookRows, chapterRows,
                durChapterIndex, loads, lastSetter, cacheReads, chapterFetches,
                configRaced>>

searchVars == <<searchKeyword, searchResults, searchLoading, searchingSources, searches, latest>>

ttsVars == <<ttsSpeaking, ttsPaused, speakPc, speechQueue, stoppedEvents, chapterPc, chapterI,
             paragraphs, started, stopCalled, idleAtCall, uiSpeaks>>

jsVars == <<jsCode, jsContext, jsHtml, jsPc, jsAt, jsReached, jsRequests, jsResult>>

importVars == <<json, bookSources, rssSources, imPc, imIndex, stored, count>>

pipeVars == <<op, source, arg, response, pc, outcome, sent, fetches, timer,
              extracted, books, result, respondWrites>>

tplVars == <<urlTemplate, tplBase, key, page, headers, tplOp, request>>

urlVars == <<urlImpl, urlBase, urlIn, urlOnce, urlOut, urlApplied, urlThrew>>

ruleVars == <<content, baseUrl, ruleA, comb, ruleB, ruleOp, results, ruleThrew>>

coreVars == <<ruleVars, urlVars, tplVars, pipeVars, importVars>>

\* the variables of the components built on the pipeline
appVars == <<concVars, readerVars, searchVars, ttsVars, jsVars>>

vars == <<coreVars, appVars>>

\* the variables an action of one component leaves alone
notConcVars == <<coreVars, readerVars, searchVars, ttsVars, jsVars>>

notReaderVars == <<coreVars, concVars, searchVars, ttsVars, jsVars>>

notSearchVars == <<coreVars, concVars, readerVars, ttsVars, jsVars>>

notTtsVars == <<coreVars, concVars, readerVars, searchVars, jsVars>>

notJsVars == <<coreVars, concVars, readerVars, searchVars, ttsVars>>

notRuleVars == <<urlVars, tplVars, pipeVars, importVars, appVars>>

notUrlVars == <<ruleVars, tplVars, pipeVars, importVars, appVars>>

notTplVars == <<ruleVars, urlVars, pipeVars, importVars, appVars>>

notPipeVars == <<ruleVars, urlVars, tplVars, importVars, appVars>>

notImportVars == <<ruleVars, urlVars, tplVars, pipeVars, appVars>>

-----------------------------------------------------------------------------
(* Bounds of the model *)

MaxDocLen == 2

MaxApply == 2

MaxPage == 2

MaxItems == 3

MaxEntries == 3

\* number of pipeline calls running concurrently
NumCalls == 2

\* number of loadChapter calls made on the reader store
MaxLoads == 2

\* number of search() calls made on the search store
MaxSearches == 2

\* number of speak() calls made by the user interface
MaxUiSpeaks == 1

-----------------------------------------------------------------------------
(* JavaScript string primitives on lexeme sequences *)

Whitespace == {" ", "\n"}

StartsWith(s, p) == Len(p) <= Len(s) /\ SubSeq(s, 1, Len(p)) = p

EndsWith(s, p) == Len(p) <= Len(s) /\ SubSeq(s, Len(s) - Len(p) + 1, Len(s)) = p

Includes(s, lex) == \E i \in 1..Len(s) : s[i] = lex

\* String.prototype.lastIndexOf, 1-based; 0 when absent
LastIndexOf(s, lex) ==
    IF Includes(s, lex)
    THEN CHOOSE i \in 1..Len(s) : s[i] = lex /\ \A j \in (i+1)..Len(s) : s[j] # lex
    ELSE 0

\* String.prototype.indexOf, 1-based; 0 when absent
IndexOf(s, lex) ==
    IF Includes(s, lex)
    THEN CHOOSE i \in 1..Len(s) : s[i] = lex /\ \A j \in 1..(i-1) : s[j] # lex
    ELSE 0

RECURSIVE TrimStart(_)
TrimStart(s) ==
    IF s # <<>> /\ Head(s) \in Whitespace THEN TrimStart(Tail(s)) ELSE s

RECURSIVE TrimEnd(_)
TrimEnd(s) ==
    IF s # <<>> /\ s[Len(s)] \in Whitespace THEN TrimEnd(SubSeq(s, 1, Len(s) - 1)) ELSE s

Trim(s) == TrimEnd(TrimStart(s))

RECURSIVE SplitFrom(_, _, _, _)
SplitFrom(s, sep, i, cur) ==
    IF i > Len(s) THEN <<cur>>
    ELSE IF s[i] = sep THEN <<cur>> \o SplitFrom(s, sep, i + 1, <<>>)
    ELSE SplitFrom(s, sep, i + 1, Append(cur, s[i]))

\* String.prototype.split with a string separator: always at least one part
Split(s, sep) == SplitFrom(s, sep, 1, <<>>)

RECURSIVE ReplaceFrom(_, _, _, _)
ReplaceFrom(s, pat, rep, i) ==
    IF i > Len(s) THEN <<>>
    ELSE IF i + Len(pat) - 1 <= Len(s) /\ SubSeq(s, i, i + Len(pat) - 1) = pat
         THEN rep \o ReplaceFrom(s, pat, rep, i + Len(pat))
         ELSE <<s[i]>> \o ReplaceFrom(s, pat, rep, i + 1)

\* s.replace(new RegExp(pat, 'g'), rep) for a pattern of literal lexemes
ReplaceAll(s, pat, rep) == IF pat = <<>> THEN s ELSE ReplaceFrom(s, pat, rep, 1)

RECURSIVE MatchFrom(_, _, _)
MatchFrom(s, pat, i) ==
    IF i + Len(pat) - 1 > Len(s) THEN <<>>
    ELSE IF SubSeq(s, i, i + Len(pat) - 1) = pat
         THEN <<pat>> \o MatchFrom(s, pat, i + Len(pat))
         ELSE MatchFrom(s, pat, i + 1)

\* s.match(new RegExp(pat, 'g')) || [] for a pattern of literal lexemes
MatchAll(s, pat) == IF pat = <<>> THEN <<>> ELSE MatchFrom(s, pat, 1)

\* Lexemes that make `new RegExp(pattern)` throw a SyntaxError
BadRegexLexemes == {"(", "["}

RegExpCompiles(pat) == \A i \in 1..Len(pat) : pat[i] \notin BadRegexLexemes

RECURSIVE Flatten(_)
Flatten(ss) == IF ss = <<>> THEN <<>> ELSE Head(ss) \o Flatten(Tail(ss))

MapSeq(ss, F(_)) == [i \in 1..Len(ss) |-> F(ss[i])]

-----------------------------------------------------------------------------
(* URL resolution: the platform's `new URL(url, base).href`.               *)
(* An absolute URL is <<scheme, "//", host>> followed by its path, a path  *)
(* being "/" and segment lexemes.  The inputs drawn below are of the forms *)
(* absolute, "//host/path", "/path", "path" and the empty string.          *)

Schemes == {"http:", "https:", "ftp:", "HTTP:"}

LowerCase(lex) ==
    CASE lex = "HTTP:" -> "http:"
      [] lex = "X.TEST" -> "x.test"
      [] OTHER -> lex

IsAbsoluteUrl(u) ==
    /\ Len(u) >= 3
    /\ u[1] \in Schemes
    /\ u[2] = "//"
    /\ u[3] \notin {"/", "//"}

\* Serialisation of a parsed absolute URL: scheme and host lower-cased, an
\* empty path written as "/"
SerializeUrl(u) ==
    <<LowerCase(u[1]), "//", LowerCase(u[3])>>
        \o (IF Len(u) = 3 THEN <<"/">> ELSE SubSeq(u, 4, Len(u)))

\* The path of a serialised URL up to and including its last "/"
DirOf(b) == SubSeq(b, 1, LastIndexOf(b, "/"))

\* new URL(url, base).href : [ok |-> FALSE] stands for the TypeError it throws
NewUrl(url, base) ==
    LET u == Trim(url)
        bb == Trim(base)
    IN  IF IsAbsoluteUrl(u) THEN [ok |-> TRUE, href |-> SerializeUrl(u)]
        ELSE IF ~IsAbsoluteUrl(bb) THEN [ok |-> FALSE, href |-> <<>>]
        ELSE LET b == SerializeUrl(bb)
             IN  IF u = <<>> THEN [ok |-> TRUE, href |-> b]
                 ELSE IF u[1] = "//"
                      THEN IF Len(u) >= 2 /\ u[2] # "/"
                           THEN [ok |-> TRUE,
                                 href |-> SerializeUrl(<<b[1]>> \o u)]
                           ELSE [ok |-> FALSE, href |-> <<>>]
                 ELSE IF u[1] = "/"
                      THEN [ok |-> TRUE, href |-> SubSeq(b, 1, 3) \o u]
                 ELSE [ok |-> TRUE, href |-> DirOf(b) \o u]

\* String.prototype.startsWith('http'): decided by the first lexeme
HttpLexemes == {"http:", "https:", "httpdocs"}

StartsWithHttp(s) == s # <<>> /\ s[1] \in HttpLexemes

-----------------------------------------------------------------------------
(* Documents: cheerio.load(html).  A document is the sequence of its       *)
(* elements in document order; an element carries the selector lexeme it   *)
(* matches, its inner HTML and its href attribute (<<>> when absent).      *)

SelectorLexemes == {".a", ".b", ".t", ".missing", ".item", ".title", ".author", ".content", ".toc"}

\* the tags an element matching a selector lexeme is serialised with
OpenTagOf(sel) == "<div class=" \o sel \o ">"

TagLexemes ==
    {"<b>", "</b>", "<p>", "</p>", "<br>", "<br/>", "<BR>", "<P>", "</P>", "<span>", "</span>"}
    \cup {OpenTagOf(sel) : sel \in SelectorLexemes} \cup {"</div>"}

DecodeEntity(lex) ==
    CASE lex = "&nbsp;" -> " "
      [] lex = "&lt;" -> "<"
      [] lex = "&gt;" -> ">"
      [] lex = "&amp;" -> "&"
      [] OTHER -> lex

\* cheerio .text(): the text nodes of the element, entities decoded
TextOf(html) ==
    LET IsNotTag(lex) == lex \notin TagLexemes
    IN  MapSeq(SelectSeq(html, IsNotTag), DecodeEntity)

\* css-what accepts the selector (surrounding blanks allowed)
SelectorParses(sel) == Len(Trim(sel)) = 1 /\ Trim(sel)[1] \in SelectorLexemes

\* $(selector): the matching elements in document order.  $('') is the empty
\* selection.  A selector css-what rejects makes cheerio throw: callers test
\* SelectorThrows first.
SelectorThrows(sel) == Trim(sel) # <<>> /\ ~SelectorParses(sel)

Matches(el, sel) == SelectorParses(sel) /\ el.sel = Trim(sel)[1]

Select(doc, sel) == LET M(el) == Matches(el, sel) IN SelectSeq(doc, M)

\* $.html(el): the element serialised back to its outer HTML
OuterHtml(el) == <<OpenTagOf(el.sel)>> \o el.html \o <<"</div>">>

\* The raw response text a document was loaded from
RawHtml(doc) == Flatten(MapSeq(doc, OuterHtml))

-----------------------------------------------------------------------------
(* AnalyzeRule: the rule engine *)

\* AnalyzeRule.parseRule: mode prefix, ## clause, @param
ParseRule(ruleStr) ==
    LET rule0 == Trim(ruleStr)
        parts == Split(rule0, "##")
        m == IF StartsWith(rule0, <<"@css:">>)
                 THEN [mode |-> "Css", rule |-> Tail(rule0), rx |-> <<>>, rep |-> <<>>]
             ELSE IF StartsWith(rule0, <<"@XPath:">>) \/ StartsWith(rule0, <<"@xpath:">>)
                 THEN [mode |-> "XPath", rule |-> Tail(rule0), rx |-> <<>>, rep |-> <<>>]
             ELSE IF StartsWith(rule0, <<"@json:">>)
                 THEN [mode |-> "Json", rule |-> Tail(rule0), rx |-> <<>>, rep |-> <<>>]
             ELSE IF StartsWith(rule0, <<"$.">>)
                 THEN [mode |-> "Json", rule |-> rule0, rx |-> <<>>, rep |-> <<>>]
             ELSE IF StartsWith(rule0, <<"{{">>) /\ EndsWith(rule0, <<"}}">>)
                 THEN [mode |-> "Js", rule |-> SubSeq(rule0, 2, Len(rule0) - 1),
                       rx |-> <<>>, rep |-> <<>>]
             ELSE IF Includes(rule0, "##")
                 THEN IF Len(parts) >= 3
                      THEN [mode |-> "Default", rule |-> parts[1],
                            rx |-> parts[2], rep |-> parts[3]]
                      ELSE [mode |-> "Regex", rule |-> parts[2], rx |-> <<>>, rep |-> <<>>]
             ELSE [mode |-> "Default", rule |-> rule0, rx |-> <<>>, rep |-> <<>>]
        at == LastIndexOf(m.rule, "@")
    IN  IF at > 1
        THEN [mode |-> m.mode, rule |-> SubSeq(m.rule, 1, at - 1),
              param |-> SubSeq(m.rule, at + 1, Len(m.rule)),
              replaceRegex |-> m.rx, replacement |-> m.rep]
        ELSE [mode |-> m.mode, rule |-> m.rule, param |-> <<>>,
              replaceRegex |-> m.rx, replacement |-> m.rep]

OpenTags == {"<b>", "<p>", "<P>", "<span>"} \cup {OpenTagOf(sel) : sel \in SelectorLexemes}

CloseTags == {"</b>", "</p>", "</P>", "</span>", "</div>"}

RECURSIVE OwnTextFrom(_, _, _)
OwnTextFrom(html, i, depth) ==
    IF i > Len(html) THEN <<>>
    ELSE IF html[i] \in OpenTags THEN OwnTextFrom(html, i + 1, depth + 1)
    ELSE IF html[i] \in CloseTags
         THEN OwnTextFrom(html, i + 1, IF depth > 0 THEN depth - 1 ELSE 0)
    ELSE IF html[i] \in TagLexemes \/ depth > 0 THEN OwnTextFrom(html, i + 1, depth)
    ELSE <<DecodeEntity(html[i])>> \o OwnTextFrom(html, i + 1, depth)

\* $el.contents() filtered to text nodes: the text outside any child element
OwnTextOf(html) == OwnTextFrom(html, 1, 0)

\* $el.attr(name) || '' : the elements of the model carry an href only
AttrOf(el, name) == IF name = <<"href">> THEN el.href ELSE <<>>

\* CssValue with the inner HTML as the default extraction
CssValueHtmlDefault(el, param, base) ==
    IF param = <<>> THEN el.html
    ELSE IF param \in {<<"text">>, <<"textNodes">>} THEN Trim(TextOf(el.html))
    ELSE AttrOf(el, param)

\* the value executeCssRule extracts from one matched element
CssValue(el, param, base) ==
    IF param \in {<<"text">>, <<"textNodes">>} THEN Trim(TextOf(el.html))
    ELSE IF param = <<"ownText">> THEN Trim(OwnTextOf(el.html))
    ELSE IF param \in {<<"html">>, <<"innerHtml">>} THEN el.html
    ELSE IF param \in {<<"href">>, <<"src">>}
         THEN LET value == AttrOf(el, param)
              IN  IF value # <<>> /\ ~StartsWithHttp(value) /\ base # <<>>
                     /\ NewUrl(value, base).ok
                  THEN NewUrl(value, base).href
                  ELSE value
    ELSE IF param # <<>> THEN AttrOf(el, param)
    ELSE Trim(TextOf(el.html))

NonEmpty(s) == s # <<>>

\* AnalyzeRule.executeCssRule: a selector error is caught and gives []
ExecuteCssRule(doc, base, rule, param) ==
    IF SelectorThrows(rule) THEN <<>>
    ELSE LET V(el) == CssValue(el, param, base)
         IN  SelectSeq(MapSeq(Select(doc, rule), V), NonEmpty)

\* AnalyzeRule.executeJsonRule: the content is the raw text of an HTML
\* document, which JSON.parse rejects
ExecuteJsonRule(doc, rule) == <<>>

\* AnalyzeRule.executeRegexRule
ExecuteRegexRule(doc, rule) ==
    IF RegExpCompiles(rule) THEN MatchAll(RawHtml(doc), rule) ELSE <<>>

\* AnalyzeRule.executeJsRule: `result` alone returns the content; the
\* result.replace(...) special case needs a snippet no rule drawn here holds
ExecuteJsRule(doc, rule) == IF rule = <<"result">> THEN <<RawHtml(doc)>> ELSE <<>>

NotBlank(s) == s # <<>> /\ Trim(s) # <<>>

\* executeRule returning the replaced strings without the final filter
ExecuteRuleUnfiltered(doc, base, parsed) ==
    LET raw == CASE parsed.mode \in {"Css", "Default", "XPath"} ->
                        ExecuteCssRule(doc, base, parsed.rule, parsed.param)
                 [] parsed.mode = "Json" -> ExecuteJsonRule(doc, parsed.rule)
                 [] parsed.mode = "Regex" -> ExecuteRegexRule(doc, parsed.rule)
                 [] parsed.mode = "Js" -> ExecuteJsRule(doc, parsed.rule)
        R(r) == ReplaceAll(r, parsed.replaceRegex, parsed.replacement)
    IN  IF parsed.replaceRegex # <<>> /\ RegExpCompiles(parsed.replaceRegex)
        THEN MapSeq(raw, R)
        ELSE raw

\* AnalyzeRule.executeRule
ExecuteRule(doc, base, parsed) ==
    LET raw == CASE parsed.mode \in {"Css", "Default", "XPath"} ->
                        ExecuteCssRule(doc, base, parsed.rule, parsed.param)
                 [] parsed.mode = "Json" -> ExecuteJsonRule(doc, parsed.rule)
                 [] parsed.mode = "Regex" -> ExecuteRegexRule(doc, parsed.rule)
                 [] parsed.mode = "Js" -> ExecuteJsRule(doc, parsed.rule)
        R(r) == ReplaceAll(r, parsed.replaceRegex, parsed.replacement)
        replaced == IF parsed.replaceRegex # <<>> /\ RegExpCompiles(parsed.replaceRegex)
                    THEN MapSeq(raw, R)
                    ELSE raw
    IN  SelectSeq(replaced, NotBlank)

RECURSIVE getStringList(_, _, _)
RECURSIVE LastNonEmpty(_, _, _)
\* the || loop returning the last alternative that yields something
LastNonEmpty(doc, base, rules) ==
    IF rules = <<>> THEN <<>>
    ELSE LET rest == LastNonEmpty(doc, base, Tail(rules))
         IN  IF Len(rest) > 0 THEN rest
             ELSE getStringList(doc, base, Trim(Head(rules)))

RECURSIVE FirstNonEmpty(_, _, _)
\* the || loop of getStringList
FirstNonEmpty(doc, base, rules) ==
    IF rules = <<>> THEN <<>>
    ELSE LET found == getStringList(doc, base, Trim(Head(rules)))
         IN  IF Len(found) > 0 THEN found
             ELSE FirstNonEmpty(doc, base, Tail(rules))

RECURSIVE Dedup(_)
Dedup(ss) ==
    IF ss = <<>> THEN <<>>
    ELSE LET rest == Dedup(SubSeq(ss, 1, Len(ss) - 1))
         IN  IF \E i \in 1..Len(rest) : rest[i] = ss[Len(ss)] THEN rest
             ELSE Append(rest, ss[Len(ss)])

RECURSIVE ConcatDistinct(_, _, _)
\* the && loop merging the results as a set
ConcatDistinct(doc, base, rules) ==
    IF rules = <<>> THEN <<>>
    ELSE Dedup(getStringList(doc, base, Trim(Head(rules)))
                 \o ConcatDistinct(doc, base, Tail(rules)))

RECURSIVE ConcatAll(_, _, _)
\* the && loop of getStringList
ConcatAll(doc, base, rules) ==
    IF rules = <<>> THEN <<>>
    ELSE getStringList(doc, base, Trim(Head(rules))) \o ConcatAll(doc, base, Tail(rules))

\* AnalyzeRule.getStringList
getStringList(doc, base, ruleStr) ==
    IF ruleStr = <<>> THEN <<>>
    ELSE IF Includes(ruleStr, "||") THEN FirstNonEmpty(doc, base, Split(ruleStr, "||"))
    ELSE IF Includes(ruleStr, "&&") THEN ConcatAll(doc, base, Split(ruleStr, "&&"))
    ELSE ExecuteRule(doc, base, ParseRule(ruleStr))

\* AnalyzeRule.getElements: the selector is queried outside any try block
getElements(doc, ruleStr) ==
    IF ruleStr = <<>> THEN [threw |-> FALSE, value |-> <<>>]
    ELSE LET parsed == ParseRule(ruleStr)
         IN  IF parsed.mode \in {"Css", "Default"}
             THEN IF SelectorThrows(parsed.rule)
                  THEN [threw |-> TRUE, value |-> <<>>]
                  ELSE [threw |-> FALSE, value |-> MapSeq(Select(doc, parsed.rule), OuterHtml)]
             ELSE [threw |-> FALSE, value |-> <<>>]

\* getAbsoluteUrl falling back to base + url when the URL cannot be parsed
getAbsoluteUrlConcat(url, base) ==
    IF url = <<>> THEN [threw |-> FALSE, value |-> <<>>]
    ELSE IF StartsWithHttp(url) THEN [threw |-> FALSE, value |-> url]
    ELSE IF url[1] = "//" THEN [threw |-> FALSE, value |-> <<"https:">> \o url]
    ELSE IF NewUrl(url, base).ok THEN [threw |-> FALSE, value |-> NewUrl(url, base).href]
    ELSE [threw |-> FALSE, value |-> base \o url]

\* AnalyzeRule.getAbsoluteUrl: the TypeError of new URL is caught
getAbsoluteUrl(url, base) ==
    IF url = <<>> THEN [threw |-> FALSE, value |-> <<>>]
    ELSE IF StartsWithHttp(url) THEN [threw |-> FALSE, value |-> url]
    ELSE IF url[1] = "//" THEN [threw |-> FALSE, value |-> <<"https:">> \o url]
    ELSE IF NewUrl(url, base).ok THEN [threw |-> FALSE, value |-> NewUrl(url, base).href]
    ELSE [threw |-> FALSE, value |-> url]

\* RuleParser.getAbsoluteUrl
ParserAbsoluteUrl(url, base) ==
    IF url = <<>> \/ StartsWithHttp(url) THEN [threw |-> FALSE, value |-> url]
    ELSE IF NewUrl(url, base).ok THEN [threw |-> FALSE, value |-> NewUrl(url, base).href]
    ELSE [threw |-> FALSE, value |-> url]

-----------------------------------------------------------------------------
(* AnalyzeUrl: the URL template expander *)

\* encodeURIComponent, lexeme by lexeme
EncodeLexeme(lex) ==
    CASE lex = "龙" -> "%E9%BE%99"
      [] lex = " " -> "%20"
      [] lex = "@" -> "%40"
      [] OTHER -> lex

encodeURIComponent(str) == MapSeq(str, EncodeLexeme)

\* str.replace(regex, rep) for a regex matching exactly the lexemes of `lexemes`
ReplaceLexemes(str, lexemes, rep) ==
    LET One(lex) == IF lex \in lexemes THEN rep ELSE <<lex>>
    IN  Flatten(MapSeq(str, One))

\* the start of a pagination marker <start,end>
MarkerStart(lex) == CASE lex = "<1,5>" -> 1 [] lex = "<3,9>" -> 3 [] OTHER -> 0

PageMarkers == {"<1,5>", "<3,9>"}

ExpandMarkers(str, p) ==
    LET One(lex) == IF lex \in PageMarkers THEN ToString(MarkerStart(lex) + (p - 1)) ELSE lex
    IN  MapSeq(str, One)

\* AnalyzeUrl.replaceVariables: nine replacements, each over the result of
\* the one before
replaceVariables(str, k, p) ==
    LET ek == encodeURIComponent(k)
        pg == <<ToString(p)>>
        s1 == ReplaceLexemes(str, {"{{key}}", "{{KEY}}"}, ek)
        s2 == ReplaceLexemes(s1, {"{{searchKey}}"}, ek)
        s3 == ReplaceLexemes(s2, {"{{page}}"}, pg)
        s4 == ReplaceLexemes(s3, {"{{searchPage}}"}, pg)
        s5 == ReplaceLexemes(s4, {"${key}"}, ek)
        s6 == ReplaceLexemes(s5, {"${page}"}, pg)
        s7 == ReplaceLexemes(s6, {"searchKey"}, ek)
        s8 == ReplaceLexemes(s7, {"searchPage"}, pg)
    IN  ExpandMarkers(s8, p)

UserAgent == "Mozilla/5.0 Chrome/120"

\* JSON.parse of a header string: the strings drawn are one of these
ParseHeaders(h) ==
    CASE h = <<"{\"X-Req\":\"1\"}">> -> [ok |-> TRUE, map |-> {<<"X-Req", "1">>}]
      [] h = <<"{\"User-Agent\":\"custom\"}">> -> [ok |-> TRUE, map |-> {<<"User-Agent", "custom">>}]
      [] OTHER -> [ok |-> FALSE, map |-> {}]

\* { ...defaults, ...custom } : custom values win on a key collision
MergeHeaders(defaults, custom) ==
    {h \in defaults : \A c \in custom : c[1] # h[1]} \cup custom

\* JSON.parse of the options object after "url," : [method, body]; the
\* option strings drawn are one lexeme naming the method then the body
ParseOptions(optionStr) ==
    IF optionStr = <<>> \/ optionStr[1] \notin {"{POST", "{post", "{GET", "{"}
    THEN [ok |-> FALSE, post |-> FALSE, body |-> <<>>]
    ELSE [ok |-> TRUE, post |-> optionStr[1] \in {"{POST", "{post"},
          body |-> SubSeq(optionStr, 2, Len(optionStr) - 1)]

\* the last step of analyze(): a relative URL is resolved against baseUrl
ResolveTemplateUrl(url, base) ==
    IF ~StartsWithHttp(url) /\ base # <<>> /\ NewUrl(url, base).ok
    THEN NewUrl(url, base).href
    ELSE url

\* the value of `request` before analyze() has run
NoRequest == [method |-> "GET", url |-> <<>>, hasBody |-> FALSE, body |-> <<>>, headers |-> {}]

\* AnalyzeUrl.analyze
analyze(template, base, k, p, h) ==
    LET hdr0 == {<<"User-Agent", UserAgent>>}
        hdr == IF h # <<>> /\ ParseHeaders(h).ok
               THEN MergeHeaders(hdr0, ParseHeaders(h).map)
               ELSE hdr0
        comma == IndexOf(template, ",{")
        at == IndexOf(template, "@")
    IN  IF comma > 0
        THEN LET opt == ParseOptions(SubSeq(template, comma + 1, Len(template)))
                 url == SubSeq(template, 1, comma - 1)
             IN  [method |-> IF opt.ok /\ opt.post THEN "POST" ELSE "GET",
                  url |-> ResolveTemplateUrl(replaceVariables(url, k, p), base),
                  hasBody |-> opt.ok /\ opt.body # <<>>,
                  body |-> IF opt.ok /\ opt.body # <<>>
                           THEN replaceVariables(opt.body, k, p) ELSE <<>>,
                  headers |-> hdr]
        ELSE IF at > 0
        THEN [method |-> "POST",
              url |-> ResolveTemplateUrl(
                          replaceVariables(SubSeq(template, 1, at - 1), k, p), base),
              hasBody |-> TRUE,
              body |-> replaceVariables(SubSeq(template, at + 1, Len(template)), k, p),
              headers |-> hdr]
        ELSE [method |-> "GET",
              url |-> ResolveTemplateUrl(replaceVariables(template, k, p), base),
              hasBody |-> FALSE,
              body |-> <<>>,
              headers |-> hdr]

-----------------------------------------------------------------------------
(* RuleParser: the parser the pipeline builds over a response.  A page is  *)
(* a sequence of nodes in document order; a node is an element as above    *)
(* with its child elements (kids, themselves without children).            *)

Leaf(sel, html, href) == [sel |-> sel, html |-> html, href |-> href, kids |-> <<>>]

Item(sel, kids) == [sel |-> sel, html |-> <<>>, href |-> <<>>, kids |-> kids]

\* a kid as a node of its own
AsNode(kid) == [sel |-> kid.sel, html |-> kid.html, href |-> kid.href, kids |-> <<>>]

\* every element of the page in document order: each node, then its kids
AllNodes(pg) ==
    LET WithKids(n) == <<n>> \o MapSeq(n.kids, AsNode)
    IN  Flatten(MapSeq(pg, WithKids))

\* cheerio .text() of a selection: the text of its elements, concatenated
NodeText(n) ==
    IF n.kids = <<>> THEN TextOf(n.html)
    ELSE LET T(k) == TextOf(k.html) IN Flatten(MapSeq(n.kids, T))

\* cheerio .html() of an element: its inner HTML
NodeHtml(n) ==
    IF n.kids = <<>> THEN n.html ELSE Flatten(MapSeq(n.kids, OuterHtml))

\* context.find(selector): the descendants matching; root.find searches the page
Find(pg, context, sel) ==
    LET M(n) == Matches(n, sel)
    IN  IF context.isRoot THEN SelectSeq(AllNodes(pg), M)
        ELSE SelectSeq(MapSeq(context.node.kids, AsNode), M)

Root == [isRoot |-> TRUE, node |-> Item("", <<>>)]

\* $.root() as a selection of one element holding the whole page
RootNode(pg) ==
    LET H(n) == <<OpenTagOf(n.sel)>> \o NodeHtml(n) \o <<"</div>">>
    IN  Leaf("", Flatten(MapSeq(pg, H)), <<>>)

Context(n) == [isRoot |-> FALSE, node |-> n]

\* the trailing @word of a rule, /@(\w+)$/ : [attr, rule]
WordLexemes == {"text", "html", "href", "src", "title"}

AttrMatch(rule) ==
    IF Len(rule) >= 2 /\ rule[Len(rule) - 1] = "@" /\ rule[Len(rule)] \in WordLexemes
    THEN [attr |-> rule[Len(rule)], rule |-> Trim(SubSeq(rule, 1, Len(rule) - 2))]
    ELSE [attr |-> "text", rule |-> rule]

\* RuleParser.parseRule for a rule without "||": nothing here catches the
\* error of an invalid selector
ParseSingle(pg, base, rule0, context) ==
    LET rule1 == IF StartsWith(rule0, <<"@css:">>) THEN Tail(rule0) ELSE rule0
        m == AttrMatch(rule1)
        el == IF m.rule # <<>> THEN Find(pg, context, m.rule)
              ELSE IF context.isRoot THEN <<RootNode(pg)>> ELSE <<context.node>>
        value == IF m.attr = "text" THEN Trim(Flatten(MapSeq(el, NodeText)))
                 ELSE IF m.attr = "html" THEN NodeHtml(el[1])
                 ELSE IF m.attr = "href" THEN el[1].href
                 ELSE <<>>
    IN  IF m.rule # <<>> /\ SelectorThrows(m.rule) THEN [threw |-> TRUE, value |-> <<>>]
        ELSE IF Len(el) = 0 THEN [threw |-> FALSE, value |-> <<>>]
        ELSE IF m.attr \in {"src", "href"} /\ value # <<>> /\ ~StartsWithHttp(value)
                /\ NewUrl(value, base).ok
             THEN [threw |-> FALSE, value |-> NewUrl(value, base).href]
        ELSE [threw |-> FALSE, value |-> value]

RECURSIVE ParseAlternatives(_, _, _, _)
\* the || loop of RuleParser.parseRule
ParseAlternatives(pg, base, rules, context) ==
    IF rules = <<>> THEN [threw |-> FALSE, value |-> <<>>]
    ELSE LET r == Trim(Head(rules))
             found == IF r = <<>> THEN [threw |-> FALSE, value |-> <<>>]
                      ELSE ParseSingle(pg, base, r, context)
         IN  IF found.threw \/ found.value # <<>> THEN found
             ELSE ParseAlternatives(pg, base, Tail(rules), context)

\* RuleParser.parseRule
parseRule(pg, base, rule, context) ==
    IF rule = <<>> THEN [threw |-> FALSE, value |-> <<>>]
    ELSE IF Includes(rule, "||") THEN ParseAlternatives(pg, base, Split(rule, "||"), context)
    ELSE ParseSingle(pg, base, rule, context)

\* RuleParser.parseRuleList
parseRuleList(pg, rule) ==
    LET sel == IF StartsWith(rule, <<"@css:">>) THEN Tail(rule) ELSE rule
        M(n) == Matches(n, sel)
    IN  IF rule = <<>> THEN [threw |-> FALSE, value |-> <<>>]
        ELSE IF SelectorThrows(sel) THEN [threw |-> TRUE, value |-> <<>>]
        ELSE [threw |-> FALSE, value |-> SelectSeq(AllNodes(pg), M)]

-----------------------------------------------------------------------------
(* The scraping pipeline: what each operation computes from a response *)

\* the request searchBooks builds: {{key}} and {{page}} only, page 1, and
\* url@body split with String.prototype.split
SearchRequest(src, keyword) ==
    LET ek == encodeURIComponent(keyword)
        url == ReplaceLexemes(ReplaceLexemes(src.searchUrl, {"{{key}}"}, ek),
                              {"{{page}}"}, <<"1">>)
        parts == Split(url, "@")
        post == Includes(url, "@")
        hdr0 == IF post THEN {<<"Content-Type", "application/x-www-form-urlencoded">>}
                ELSE {}
        hdr1 == IF src.header # <<>> /\ ParseHeaders(src.header).ok
                THEN MergeHeaders(hdr0, ParseHeaders(src.header).map)
                ELSE hdr0
    IN  [method |-> IF post THEN "POST" ELSE "GET",
         url |-> IF post THEN parts[1] ELSE url,
         hasBody |-> post,
         body |-> IF post THEN ReplaceLexemes(parts[2], {"{{key}}"}, ek) ELSE <<>>,
         headers |-> MergeHeaders({<<"User-Agent", UserAgent>>}, hdr1)]

\* fetchWithTimeout(url) without options
GetRequest(url) ==
    [method |-> "GET", url |-> url, hasBody |-> FALSE, body |-> <<>>,
     headers |-> {<<"User-Agent", UserAgent>>}]

\* the fields of a rule group that hold a rule of one value
ValueFields ==
    {"name", "author", "intro", "kind", "lastChapter", "wordCount", "coverUrl", "bookUrl",
     "tocUrl", "chapterName", "chapterUrl"}

\* parser.parseRule(rule.<field>, context) for every field of a rule group
ParseFields(pg, base, rule, context) ==
    [f \in ValueFields |-> parseRule(pg, base, rule[f], context)]

\* the SearchResult built from the parsed fields v of one element
BookRecord(src, v) ==
    [threw |-> \E f \in ValueFields : v[f].threw,
     book |-> [sourceId |-> src.id,
               sourceName |-> src.bookSourceName,
               name |-> v.name.value,
               author |-> v.author.value,
               intro |-> v.intro.value,
               kind |-> v.kind.value,
               latestChapterTitle |-> v.lastChapter.value,
               wordCount |-> v.wordCount.value,
               coverUrl |-> ParserAbsoluteUrl(v.coverUrl.value, src.bookSourceUrl).value,
               bookUrl |-> ParserAbsoluteUrl(v.bookUrl.value, src.bookSourceUrl).value]]

\* one record of the loop of searchBooks; threw when a rule of a field threw
SearchBook(pg, src, el) ==
    BookRecord(src, ParseFields(pg, src.bookSourceUrl, src.ruleSearch, Context(el)))

\* if (book.name && book.bookUrl) books.push(book), keeping name only
HasName(book) == book.name # <<>>

\* if (book.name && book.bookUrl) books.push(book)
IsValidBook(book) == book.name # <<>> /\ book.bookUrl # <<>>

\* the loop of searchBooks over the records recs of the matched elements
PushValid(listThrew, recs) ==
    LET Rec(r) == r.book
    IN  IF listThrew \/ \E i \in 1..Len(recs) : recs[i].threw
        THEN [threw |-> TRUE, value |-> <<>>]
        ELSE [threw |-> FALSE, value |-> SelectSeq(MapSeq(recs, Rec), IsValidBook)]

\* one record per element of the list
SearchRecords(pg, src, list) ==
    LET B(el) == SearchBook(pg, src, el)
    IN  PushValid(list.threw, MapSeq(list.value, B))

\* the extraction of searchBooks: parseRuleList, then one record per element
SearchBooksOf(pg, src) == SearchRecords(pg, src, parseRuleList(pg, src.ruleSearch.bookList))

NullBook ==
    [isNull |-> TRUE, sourceId |-> "", sourceName |-> "", bookUrl |-> <<>>, name |-> <<>>,
     author |-> <<>>, intro |-> <<>>, kind |-> <<>>, latestChapterTitle |-> <<>>,
     wordCount |-> <<>>, coverUrl |-> <<>>, tocUrl |-> <<>>]

\* the Book built from the parsed fields v of the page
InfoRecord(src, bookUrl, v) ==
    [threw |-> \E f \in ValueFields : v[f].threw,
     value |-> [isNull |-> FALSE,
                sourceId |-> src.id,
                sourceName |-> src.bookSourceName,
                bookUrl |-> bookUrl,
                name |-> v.name.value,
                author |-> v.author.value,
                intro |-> v.intro.value,
                kind |-> v.kind.value,
                latestChapterTitle |-> v.lastChapter.value,
                wordCount |-> v.wordCount.value,
                coverUrl |-> ParserAbsoluteUrl(v.coverUrl.value, src.bookSourceUrl).value,
                tocUrl |-> IF ParserAbsoluteUrl(v.tocUrl.value, src.bookSourceUrl).value # <<>>
                           THEN ParserAbsoluteUrl(v.tocUrl.value, src.bookSourceUrl).value
                           ELSE bookUrl]]

\* the record getBookInfo assembles
BookInfoOf(pg, src, bookUrl) ==
    InfoRecord(src, bookUrl, ParseFields(pg, src.bookSourceUrl, src.ruleBookInfo, Root))

IsValidChapter(ch) == ch.title # <<>> /\ ch.url # <<>>

\* the chapters built from the parsed fields v[i] of the i-th matched element:
\* index is the position among the matched elements
Chapters(src, bk, listThrew, v) ==
    LET chapters == [i \in 1..Len(v) |->
                        [id |-> <<bk.id, "_", ToString(i - 1)>>,
                         bookId |-> bk.id,
                         index |-> i - 1,
                         title |-> v[i].chapterName.value,
                         url |-> ParserAbsoluteUrl(v[i].chapterUrl.value,
                                                   src.bookSourceUrl).value]]
    IN  IF listThrew \/ \E i \in 1..Len(v) : v[i].chapterName.threw \/ v[i].chapterUrl.threw
        THEN [threw |-> TRUE, value |-> <<>>]
        ELSE [threw |-> FALSE, value |-> SelectSeq(chapters, IsValidChapter)]

\* the fields of every element of the chapter list
TocRecords(pg, src, bk, list) ==
    LET V(el) == ParseFields(pg, src.bookSourceUrl, src.ruleToc, Context(el))
    IN  Chapters(src, bk, list.threw, MapSeq(list.value, V))

\* the extraction of getBookToc
TocOf(pg, src, bk) == TocRecords(pg, src, bk, parseRuleList(pg, src.ruleToc.chapterList))

RECURSIVE CollapseNewlines(_)
\* .replace(/\n{3,}/g, '\n\n')
CollapseNewlines(str) ==
    IF Len(str) >= 3 /\ str[1] = "\n" /\ str[2] = "\n" /\ str[3] = "\n"
    THEN CollapseNewlines(Tail(str))
    ELSE IF str = <<>> THEN <<>>
    ELSE <<Head(str)>> \o CollapseNewlines(Tail(str))

\* the generic cleanup of getChapterContent, in the order of the code
CleanContent(str) ==
    LET s1 == ReplaceLexemes(str, {"<br>", "<br/>", "<BR>"}, <<"\n">>)
        s2 == ReplaceLexemes(s1, {"<p>", "<P>"}, <<"\n">>)
        s3 == ReplaceLexemes(s2, {"</p>", "</P>"}, <<>>)
        s4 == ReplaceLexemes(s3, TagLexemes, <<>>)
        s5 == ReplaceLexemes(s4, {"&nbsp;"}, <<" ">>)
        s6 == ReplaceLexemes(s5, {"&lt;"}, <<"<">>)
        s7 == ReplaceLexemes(s6, {"&gt;"}, <<">">>)
        s8 == ReplaceLexemes(s7, {"&amp;"}, <<"&">>)
    IN  Trim(CollapseNewlines(s8))

RECURSIVE ApplyPairs(_, _)
\* the loop over the pattern@@replacement pairs: a pattern that does not
\* compile throws, and the catch around the loop keeps the content so far
ApplyPairs(str, pairs) ==
    IF pairs = <<>> THEN str
    ELSE LET parts == Split(Head(pairs), "@@")
             pattern == parts[1]
             replacement == IF Len(parts) >= 2 THEN parts[2] ELSE <<>>
         IN  IF pattern = <<>> THEN ApplyPairs(str, Tail(pairs))
             ELSE IF ~RegExpCompiles(pattern) THEN str
             ELSE ApplyPairs(ReplaceAll(str, pattern, replacement), Tail(pairs))

\* the replaceRegex step of getChapterContent
ApplyReplaceRegex(str, replaceRegex) ==
    IF replaceRegex = <<>> THEN str ELSE ApplyPairs(str, Split(replaceRegex, "##"))

\* what getChapterContent makes of the extracted content ex
ContentResult(ex, replaceRegex) ==
    [threw |-> ex.threw,
     extracted |-> ex.value,
     value |-> ApplyReplaceRegex(CleanContent(ex.value), replaceRegex)]

\* what getChapterContent extracts and returns: [threw, extracted, value]
ChapterContentOf(pg, src) ==
    ContentResult(parseRule(pg, src.bookSourceUrl, src.ruleContent.content, Root),
                  src.ruleContent.replaceRegex)

-----------------------------------------------------------------------------
(* The sources, arguments and responses the pipeline is run on *)

NoRules ==
    [defined |-> FALSE, bookList |-> <<>>, name |-> <<>>, author |-> <<>>, intro |-> <<>>,
     kind |-> <<>>, lastChapter |-> <<>>, wordCount |-> <<>>, coverUrl |-> <<>>,
     bookUrl |-> <<>>, tocUrl |-> <<>>, chapterList |-> <<>>, chapterName |-> <<>>,
     chapterUrl |-> <<>>, content |-> <<>>, replaceRegex |-> <<>>]

NoSource ==
    [id |-> "s1", bookSourceName |-> "Source 1", bookSourceUrl |-> <<>>,
     searchUrl |-> <<>>, header |-> <<>>, ruleSearch |-> NoRules, ruleBookInfo |-> NoRules,
     ruleToc |-> NoRules, ruleContent |-> NoRules]

NoArg ==
    [keyword |-> <<>>, bookId |-> "", bookUrl |-> <<>>, tocUrl |-> <<>>, chapterUrl |-> <<>>]

SiteUrl == <<"http:", "//", "x.test">>

GetSearchUrl == SiteUrl \o <<"/", "s?q=", "{{key}}", "&p=", "{{page}}">>

TypicalRuleSearch ==
    [NoRules EXCEPT !.defined = TRUE, !.bookList = <<".item">>, !.name = <<".title">>,
                    !.bookUrl = <<".title", "@", "href">>]

\* sources for a search: the search URL forms and the header on typical
\* rules, then the rules of the fields, of the list and of the name
SearchSources ==
    { [NoSource EXCEPT !.bookSourceUrl = SiteUrl, !.searchUrl = u, !.header = h,
                       !.ruleSearch = r] :
        u \in {<<>>, GetSearchUrl, SiteUrl \o <<"/", "s", "@", "k=", "{{key}}">>,
                SiteUrl \o <<"/", "s", "@", "k=", "{{key}}", "@", "x">>},
        h \in {<<>>, <<"{\"X-Req\":\"1\"}">>},
        r \in {NoRules, TypicalRuleSearch} }
    \cup
    { [NoSource EXCEPT !.bookSourceUrl = b, !.searchUrl = GetSearchUrl,
                       !.ruleSearch = [TypicalRuleSearch EXCEPT !.author = a, !.bookUrl = u]] :
        b \in {<<>>, SiteUrl},
        a \in {<<>>, <<".author">>, <<"[">>},
        u \in {<<".title", "@", "href">>, <<>>} }
    \cup
    { [NoSource EXCEPT !.bookSourceUrl = SiteUrl, !.searchUrl = GetSearchUrl,
                       !.ruleSearch = [TypicalRuleSearch EXCEPT !.bookList = l, !.name = n]] :
        l \in {<<".item">>, <<"@css:", ".item">>, <<"[">>, <<>>},
        n \in {<<".title">>, <<".missing", "||", ".title", "@", "text">>} }

InfoSources ==
    { [NoSource EXCEPT !.bookSourceUrl = SiteUrl, !.ruleBookInfo = r] :
        r \in {NoRules} \cup
              { [NoRules EXCEPT !.defined = TRUE, !.name = <<".title">>, !.author = a,
                                !.tocUrl = t] :
                  a \in {<<>>, <<".author">>, <<"[">>},
                  t \in {<<>>, <<".toc", "@", "href">>} } }

TocSources ==
    { [NoSource EXCEPT !.bookSourceUrl = SiteUrl, !.ruleToc = r] :
        r \in {NoRules} \cup
              { [NoRules EXCEPT !.defined = TRUE, !.chapterList = l,
                                !.chapterName = <<".title">>,
                                !.chapterUrl = <<".title", "@", "href">>] :
                  l \in {<<".item">>, <<"@css:", ".item">>, <<"[">>} } }

ExampleHtml == <<"<p>", "Hello", "</p>", "<br>", "<p>", "World", "</p>">>

ContentSources ==
    { [NoSource EXCEPT !.bookSourceUrl = SiteUrl, !.ruleContent = r] :
        r \in {NoRules} \cup
              { [NoRules EXCEPT !.defined = TRUE, !.content = c, !.replaceRegex = x] :
                  c \in {<<".content", "@", "html">>, <<".content">>, <<"[">>},
                  x \in { <<>>,
                           <<"Hello", "@@", "Hi">>,
                           <<"<p>", "@@", "X", "##", "World", "@@", "Earth">>,
                           <<"\n", "\n", "@@", "\n">>,
                           <<"(", "@@", "x", "##", "World", "@@", "Earth">>,
                           <<"World">> } } }

\* all sequences over S of length at most n
RECURSIVE SeqsUpTo(_, _)
SeqsUpTo(S, n) ==
    IF n = 0 THEN {<<>>}
    ELSE LET shorter == SeqsUpTo(S, n - 1)
         IN  shorter \cup {Append(q, x) : q \in shorter, x \in S}

ItemPool ==
    { Item(".item", << [sel |-> ".title", html |-> <<"Book1">>, href |-> <<"/", "b", "/", "1">>],
                       [sel |-> ".author", html |-> <<"Ann">>, href |-> <<>>] >>),
      Item(".item", << [sel |-> ".title", html |-> <<"Book2">>,
                        href |-> SiteUrl \o <<"/", "b", "/", "2">>] >>),
      Item(".item", << [sel |-> ".title", html |-> <<"Book3">>, href |-> <<>>] >>),
      Item(".item", << [sel |-> ".author", html |-> <<"Bob">>, href |-> <<>>] >>),
      Leaf(".title", <<"Ad">>, <<"/", "ad">>) }

ListPages == SeqsUpTo(ItemPool, MaxItems)

InfoPages ==
    { <<>>,
      << Leaf(".title", <<"Book1">>, <<>>) >>,
      << Leaf(".title", <<"Book1">>, <<>>), Leaf(".author", <<" ", "Ann">>, <<>>),
         Leaf(".toc", <<"toc">>, <<"/", "toc", "/", "1">>) >> }

ContentPages ==
    { <<>>,
      << Leaf(".content", ExampleHtml, <<>>) >>,
      << Leaf(".content",
              <<" ", "a", "&nbsp;", "&lt;", "b", "&gt;", "&amp;", "<br/>", "<br>", "<BR>",
                "\n", "<span>", "c", "</span>", "<P>", "d", "</P>">>, <<>>) >> }

BookUrl == SiteUrl \o <<"/", "b", "/", "1">>

Ops == {"searchBooks", "getBookInfo", "getBookToc", "getChapterContent"}

\* the empty result of an operation: [] / null / [] / ""
EmptyResult(o) == IF o = "getBookInfo" THEN NullBook ELSE <<>>

\* no import is under way
ImportIdle ==
    /\ json = <<>>
    /\ bookSources = <<>>
    /\ rssSources = <<>>
    /\ imPc = "new"
    /\ imIndex = 0
    /\ stored = <<>>
    /\ count = 0

Calls == 1..NumCalls

\* no concurrent search has been started
ConcIdle ==
    /\ callSource = [c \in Calls |-> NoSource]
    /\ callPage = [c \in Calls |-> <<>>]
    /\ callPc = [c \in Calls |-> "idle"]
    /\ callOutcome = [c \in Calls |-> "pending"]
    /\ callResult = [c \in Calls |-> <<>>]
    /\ parsers = [c \in Calls |-> [doc |-> <<>>, base |-> <<>>]]
    /\ bookLists = [c \in Calls |-> <<>>]

NoBook == [id |-> "", sourceId |-> ""]

\* the tables as they are with one online book on the shelf
ShelfTables ==
    /\ contentCache = <<<<>>, <<>>>>
    /\ sourceRows = {"s1"}
    /\ bookRows = {"b1"}
    /\ chapterRows = {0, 1}

\* the reader store as created, no loadChapter call made
ReaderIdle ==
    /\ readerBook = NoBook
    /\ readerChapters = <<>>
    /\ currentChapterIndex = 0
    /\ currentChapter = "none"
    /\ readerContent = <<>>
    /\ loading = FALSE
    /\ useReplaceRule = TRUE
    /\ ShelfTables
    /\ durChapterIndex = 0
    /\ loads = <<>>
    /\ lastSetter = 0
    /\ cacheReads = 0
    /\ chapterFetches = 0
    /\ configRaced = FALSE

\* the search store as created
SearchIdle ==
    /\ searchKeyword = <<>>
    /\ searchResults = <<>>
    /\ searchLoading = FALSE
    /\ searchingSources = <<>>
    /\ searches = <<>>
    /\ latest = 0

\* who calls speak(): the user interface, or speakChapter; "stop" is a call
\* of stop() from outside speak()
Speakers == {"ui", "chapter", "stop"}

\* the TTS service as constructed, nothing being spoken
TtsIdle ==
    /\ ttsSpeaking = FALSE
    /\ ttsPaused = FALSE
    /\ speakPc = [o \in Speakers |-> "none"]
    /\ speechQueue = <<>>
    /\ stoppedEvents = {}
    /\ chapterPc = "idle"
    /\ chapterI = 0
    /\ paragraphs = <<>>
    /\ started = <<>>
    /\ stopCalled = FALSE
    /\ idleAtCall = FALSE
    /\ uiSpeaks = 0

\* a RuleContext with every field left out
NoContext == [result |-> <<>>, baseUrl |-> <<>>, page |-> 0, key |-> <<>>]

\* no snippet is being executed
JsIdle ==
    /\ jsCode = [parses |-> TRUE, uses |-> <<>>]
    /\ jsContext = NoContext
    /\ jsHtml = <<>>
    /\ jsPc = "idle"
    /\ jsAt = 0
    /\ jsReached = <<>>
    /\ jsRequests = <<>>
    /\ jsResult = <<>>

\* the components built on the pipeline at rest
AppIdle == ConcIdle /\ ReaderIdle /\ SearchIdle /\ TtsIdle /\ JsIdle

-----------------------------------------------------------------------------
(* The rule engine as a state machine: an analyzer is constructed over a   *)
(* document and a base URL, and one of its operations is called with a     *)
(* rule.  A rule is drawn as its parts: mode prefix, selector, @suffix and *)
(* ## clause; RuleText writes it out as the rule string.                   *)

ElemPool ==
    { [sel |-> ".a", html |-> <<"1">>, href |-> <<"/", "p">>],
      [sel |-> ".t", html |-> <<"foo", "baz">>, href |-> <<>>],
      [sel |-> ".t", html |-> <<" ", "<b>", "foo", "</b>", " ">>,
       href |-> <<"http:", "//", "x.test", "/", "c">>],
      [sel |-> ".b", html |-> <<"foo">>, href |-> <<>>],
      [sel |-> ".a", html |-> <<" ">>, href |-> <<>>] }

Docs == SeqsUpTo(ElemPool, MaxDocLen)

Bases == {<<>>, <<"http:", "//", "h.test", "/", "d", "/", "f">>}

NoParts == [prefix |-> <<>>, sel |-> <<>>, suffix |-> <<>>, clause |-> <<>>]

CssRules ==
    [prefix : {<<>>, <<"@css:">>},
     sel : {<<".a">>, <<".t">>, <<".missing">>},
     suffix : {<<>>, <<"@", "text">>, <<"@", "href">>},
     clause : {<<>>, <<"##", "foo", "##", "bar">>, <<"##", "foo", "##">>}]

\* rules of the other modes (script, whole-content regex, JSON path, XPath),
\* and rules whose replacement text holds a combinator
FirstRules ==
    CssRules \cup
    { [prefix |-> <<>>, sel |-> <<"{{", "result", "}}">>, suffix |-> <<>>, clause |-> <<>>],
      [prefix |-> <<>>, sel |-> <<>>, suffix |-> <<>>, clause |-> <<"##", "foo">>],
      [prefix |-> <<"$.">>, sel |-> <<"data">>, suffix |-> <<>>, clause |-> <<>>],
      [prefix |-> <<"@XPath:">>, sel |-> <<".t">>, suffix |-> <<>>, clause |-> <<>>],
      [prefix |-> <<>>, sel |-> <<"[">>, suffix |-> <<>>, clause |-> <<>>],
      [prefix |-> <<>>, sel |-> <<".t">>, suffix |-> <<"@", "text">>,
       clause |-> <<"##", "foo", "##", "bar", "||", "baz">>],
      [prefix |-> <<>>, sel |-> <<".t">>, suffix |-> <<"@", "text">>,
       clause |-> <<"##", "foo", "##", "bar", "&&", "baz">>] }

SecondRules ==
    { [prefix |-> <<>>, sel |-> <<".b">>, suffix |-> <<>>, clause |-> <<>>],
      [prefix |-> <<>>, sel |-> <<".t">>, suffix |-> <<"@", "text">>, clause |-> <<>>],
      [prefix |-> <<>>, sel |-> <<".missing">>, suffix |-> <<>>, clause |-> <<>>],
      [prefix |-> <<>>, sel |-> <<".a">>, suffix |-> <<>>,
       clause |-> <<"&&", ".b", "||", ".t">>] }

PartText(r) == r.prefix \o r.sel \o r.suffix \o r.clause

\* the rule string of the call
RuleText(a, c, b) == IF c = "none" THEN PartText(a) ELSE PartText(a) \o <<c>> \o PartText(b)

ruleStr == RuleText(ruleA, comb, ruleB)

InitRule ==
    /\ content \in Docs
    /\ baseUrl \in Bases
    /\ ruleA \in FirstRules
    /\ comb \in {"none", "||", "&&"}
    /\ ruleB \in IF comb = "none" THEN {NoParts} ELSE SecondRules
    /\ ruleOp = "new"
    /\ results = <<>>
    /\ ruleThrew = FALSE
    /\ urlImpl = "AnalyzeRule"
    /\ urlBase = <<>>
    /\ urlIn = <<>>
    /\ urlOnce = <<>>
    /\ urlOut = <<>>
    /\ urlApplied = 0
    /\ urlThrew = FALSE
    /\ urlTemplate = <<>>
    /\ tplBase = <<>>
    /\ key = <<>>
    /\ page = 1
    /\ headers = <<>>
    /\ tplOp = "new"
    /\ request = NoRequest
    /\ op = "searchBooks"
    /\ source = NoSource
    /\ arg = NoArg
    /\ response = <<>>
    /\ pc = "idle"
    /\ outcome = "pending"
    /\ sent = NoRequest
    /\ fetches = 0
    /\ timer = FALSE
    /\ extracted = <<>>
    /\ books = <<>>
    /\ result = <<>>
    /\ respondWrites = 0
    /\ ImportIdle
    /\ AppIdle

GetStringListCall ==
    /\ ruleOp = "new"
    /\ ruleOp' = "getStringList"
    /\ results' = getStringList(content, baseUrl, ruleStr)
    /\ UNCHANGED <<content, baseUrl, ruleA, comb, ruleB, ruleThrew>>
    /\ UNCHANGED notRuleVars

GetElementsCall ==
    /\ ruleOp = "new"
    /\ ruleOp' = "getElements"
    /\ results' = getElements(content, ruleStr).value
    /\ ruleThrew' = getElements(content, ruleStr).threw
    /\ UNCHANGED <<content, baseUrl, ruleA, comb, ruleB>>
    /\ UNCHANGED notRuleVars

NextRule == GetStringListCall \/ GetElementsCall

-----------------------------------------------------------------------------
(* getAbsoluteUrl applied repeatedly to its own result *)

UrlInputs ==
    { <<>>,
      <<"http:", "//", "x.test", "/", "c">>,
      <<"https:", "//", "x.test">>,
      <<"HTTP:", "//", "X.TEST", "/", "c">>,
      <<"ftp:", "//", "x.test", "/", "c">>,
      <<" ", "http:", "//", "x.test">>,
      <<"//", "x.test", "/", "c">>,
      <<"//">>,
      <<"/", "p">>,
      <<"a">>,
      <<"a", "/", "b">>,
      <<"httpdocs", "/", "a">> }

UrlBases ==
    { <<>>,
      <<"http:", "//", "h.test", "/", "d", "/", "f">>,
      <<"https:", "//", "h.test">>,
      <<"ftp:", "//", "h.test", "/", "d", "/">>,
      <<"HTTP:", "//", "X.TEST">>,
      <<"h.test">> }

InitUrl ==
    /\ urlImpl \in {"AnalyzeRule", "RuleParser"}
    /\ urlBase \in UrlBases
    /\ urlIn \in UrlInputs
    /\ urlOnce = <<>>
    /\ urlOut = <<>>
    /\ urlApplied = 0
    /\ urlThrew = FALSE
    /\ content = <<>>
    /\ baseUrl = <<>>
    /\ ruleA = NoParts
    /\ comb = "none"
    /\ ruleB = NoParts
    /\ ruleOp = "new"
    /\ results = <<>>
    /\ ruleThrew = FALSE
    /\ urlTemplate = <<>>
    /\ tplBase = <<>>
    /\ key = <<>>
    /\ page = 1
    /\ headers = <<>>
    /\ tplOp = "new"
    /\ request = NoRequest
    /\ op = "searchBooks"
    /\ source = NoSource
    /\ arg = NoArg
    /\ response = <<>>
    /\ pc = "idle"
    /\ outcome = "pending"
    /\ sent = NoRequest
    /\ fetches = 0
    /\ timer = FALSE
    /\ extracted = <<>>
    /\ books = <<>>
    /\ result = <<>>
    /\ respondWrites = 0
    /\ ImportIdle
    /\ AppIdle

UrlArg == IF urlApplied = 0 THEN urlIn ELSE urlOut

ApplyTo(r) ==
    /\ urlApplied < MaxApply
    /\ urlApplied' = urlApplied + 1
    /\ urlThrew' = (urlThrew \/ r.threw)
    /\ urlOut' = r.value
    /\ urlOnce' = IF urlApplied = 0 THEN r.value ELSE urlOnce
    /\ UNCHANGED <<urlImpl, urlBase, urlIn>>
    /\ UNCHANGED notUrlVars

AnalyzeRuleGetAbsoluteUrl ==
    /\ urlImpl = "AnalyzeRule"
    /\ ApplyTo(getAbsoluteUrl(UrlArg, urlBase))

RuleParserGetAbsoluteUrl ==
    /\ urlImpl = "RuleParser"
    /\ ApplyTo(ParserAbsoluteUrl(UrlArg, urlBase))

NextUrl == AnalyzeRuleGetAbsoluteUrl \/ RuleParserGetAbsoluteUrl

-----------------------------------------------------------------------------
(* The URL template expander as a state machine: an AnalyzeUrl is built    *)
(* over a template, a keyword and a page, and analyze() is called.  A      *)
(* template is an endpoint followed by a keyword placeholder, "&p=", a     *)
(* page placeholder and possibly a POST directive.                         *)

KeyPlaceholders == {"{{key}}", "{{searchKey}}", "${key}", "searchKey", "{{KEY}}"}

PagePlaceholders == {"{{page}}", "{{searchPage}}", "${page}", "searchPage"}

Templates ==
    LET Endpoints == {<<"http:", "//", "x.test", "/", "s?q=">>, <<"/", "s?q=">>}
        PostDirectives ==
            { <<>>,
              <<"@", "k=", "{{key}}">>,
              <<"@", "k=", "{{key}}", "@", "x">>,
              <<",{", "{POST", "k=", "{{key}}", "}">>,
              <<",{", "{GET", "}">>,
              <<",{", "{bad">> }
    IN  { e \o <<k>> \o <<"&p=">> \o <<g>> \o d :
            e \in Endpoints, k \in KeyPlaceholders \cup {"q"},
            g \in PagePlaceholders \cup PageMarkers \cup {"1"}, d \in PostDirectives }

Keywords == { <<>>, <<"a">>, <<"龙">>, <<"searchKey">>, <<"searchPage">>, <<"a", " ", "龙">> }

HeaderStrings == {<<>>, <<"{\"X-Req\":\"1\"}">>, <<"{\"User-Agent\":\"custom\"}">>, <<"{oops">>}

InitTpl ==
    /\ urlTemplate \in Templates
    /\ tplBase \in {<<>>, <<"http:", "//", "h.test", "/", "d", "/", "f">>}
    /\ key \in Keywords
    /\ page \in 1..MaxPage
    /\ headers \in HeaderStrings
    /\ tplOp = "new"
    /\ request = NoRequest
    /\ content = <<>>
    /\ baseUrl = <<>>
    /\ ruleA = NoParts
    /\ comb = "none"
    /\ ruleB = NoParts
    /\ ruleOp = "new"
    /\ results = <<>>
    /\ ruleThrew = FALSE
    /\ urlImpl = "AnalyzeRule"
    /\ urlBase = <<>>
    /\ urlIn = <<>>
    /\ urlOnce = <<>>
    /\ urlOut = <<>>
    /\ urlApplied = 0
    /\ urlThrew = FALSE
    /\ op = "searchBooks"
    /\ source = NoSource
    /\ arg = NoArg
    /\ response = <<>>
    /\ pc = "idle"
    /\ outcome = "pending"
    /\ sent = NoRequest
    /\ fetches = 0
    /\ timer = FALSE
    /\ extracted = <<>>
    /\ books = <<>>
    /\ result = <<>>
    /\ respondWrites = 0
    /\ ImportIdle
    /\ AppIdle

Analyze ==
    /\ tplOp = "new"
    /\ tplOp' = "analyze"
    /\ request' = analyze(urlTemplate, tplBase, key, page, headers)
    /\ UNCHANGED <<urlTemplate, tplBase, key, page, headers>>
    /\ UNCHANGED notTplVars

NextTpl == Analyze

-----------------------------------------------------------------------------
(* The pipeline as a state machine: one call of one operation.  An action  *)
(* is the code that runs between two awaits.                               *)

InitPipe ==
    /\ op \in Ops
    /\ source \in CASE op = "searchBooks" -> SearchSources
                    [] op = "getBookInfo" -> InfoSources
                    [] op = "getBookToc" -> TocSources
                    [] op = "getChapterContent" -> ContentSources
    /\ arg \in CASE op = "searchBooks" ->
                        {[NoArg EXCEPT !.keyword = k] : k \in {<<"test">>, <<"龙">>}}
                 [] op = "getBookInfo" -> {[NoArg EXCEPT !.bookUrl = BookUrl]}
                 [] op = "getBookToc" ->
                        {[NoArg EXCEPT !.bookId = "b1", !.bookUrl = BookUrl, !.tocUrl = t] :
                            t \in {<<>>, SiteUrl \o <<"/", "toc", "/", "1">>}}
                 [] op = "getChapterContent" ->
                        {[NoArg EXCEPT !.bookId = "b1",
                                       !.chapterUrl = SiteUrl \o <<"/", "c", "/", "1">>]}
    /\ response \in CASE op \in {"searchBooks", "getBookToc"} -> ListPages
                      [] op = "getBookInfo" -> InfoPages
                      [] op = "getChapterContent" -> ContentPages
    /\ pc = "idle"
    /\ outcome = "pending"
    /\ sent = NoRequest
    /\ fetches = 0
    /\ timer = FALSE
    /\ extracted = <<>>
    /\ books = <<>>
    /\ result = EmptyResult(op)
    /\ respondWrites = 0
    /\ ImportIdle
    /\ AppIdle
    /\ content = <<>>
    /\ baseUrl = <<>>
    /\ ruleA = NoParts
    /\ comb = "none"
    /\ ruleB = NoParts
    /\ ruleOp = "new"
    /\ results = <<>>
    /\ ruleThrew = FALSE
    /\ urlImpl = "AnalyzeRule"
    /\ urlBase = <<>>
    /\ urlIn = <<>>
    /\ urlOnce = <<>>
    /\ urlOut = <<>>
    /\ urlApplied = 0
    /\ urlThrew = FALSE
    /\ urlTemplate = <<>>
    /\ tplBase = <<>>
    /\ key = <<>>
    /\ page = 1
    /\ headers = <<>>
    /\ tplOp = "new"
    /\ request = NoRequest

\* a catch block that logs and throws the error on to the caller
CatchRethrows(o) == [pc |-> "rejected", result |-> EmptyResult(o)]

\* the catch block of an operation: log, return the empty result
CatchBoundary(o) == [pc |-> "returned", result |-> EmptyResult(o)]

\* an error thrown inside the try block of the operation
Fail(kind) ==
    /\ pc' = CatchBoundary(op).pc
    /\ result' = CatchBoundary(op).result
    /\ outcome' = kind

\* the early return on missing configuration
ReturnUnconfigured ==
    /\ pc' = "returned"
    /\ outcome' = "noConfig"
    /\ result' = EmptyResult(op)
    /\ UNCHANGED <<sent, fetches, timer>>

\* fetchWithTimeout up to `await fetch(...)`
StartFetch(req) ==
    /\ pc' = "fetching"
    /\ sent' = req
    /\ fetches' = fetches + 1
    /\ timer' = TRUE
    /\ UNCHANGED <<outcome, result>>

CallSearchBooks ==
    /\ pc = "idle" /\ op = "searchBooks"
    /\ IF source.searchUrl = <<>> \/ ~source.ruleSearch.defined
       THEN ReturnUnconfigured
       ELSE StartFetch(SearchRequest(source, arg.keyword))
    /\ UNCHANGED <<op, source, arg, response, extracted, books, respondWrites>>
    /\ UNCHANGED notPipeVars

CallGetBookInfo ==
    /\ pc = "idle" /\ op = "getBookInfo"
    /\ IF ~source.ruleBookInfo.defined
       THEN ReturnUnconfigured
       ELSE StartFetch(GetRequest(arg.bookUrl))
    /\ UNCHANGED <<op, source, arg, response, extracted, books, respondWrites>>
    /\ UNCHANGED notPipeVars

CallGetBookToc ==
    /\ pc = "idle" /\ op = "getBookToc"
    /\ IF ~source.ruleToc.defined
       THEN ReturnUnconfigured
       ELSE StartFetch(GetRequest(IF arg.tocUrl # <<>> THEN arg.tocUrl ELSE arg.bookUrl))
    /\ UNCHANGED <<op, source, arg, response, extracted, books, respondWrites>>
    /\ UNCHANGED notPipeVars

CallGetChapterContent ==
    /\ pc = "idle" /\ op = "getChapterContent"
    /\ IF ~source.ruleContent.defined
       THEN ReturnUnconfigured
       ELSE StartFetch(GetRequest(arg.chapterUrl))
    /\ UNCHANGED <<op, source, arg, response, extracted, books, respondWrites>>
    /\ UNCHANGED notPipeVars

\* fetch resolves with the response headers: the timer is cleared and the
\* body is awaited
FetchResolves ==
    /\ pc = "fetching"
    /\ pc' = "reading"
    /\ timer' = FALSE
    /\ UNCHANGED <<op, source, arg, response, outcome, sent, fetches, extracted, books,
                   result, respondWrites>>
    /\ UNCHANGED notPipeVars

\* fetch rejects (network error): the timer is cleared and the error rethrown
FetchRejects ==
    /\ pc = "fetching"
    /\ timer' = FALSE
    /\ Fail("netError")
    /\ UNCHANGED <<op, source, arg, response, sent, fetches, extracted, books, respondWrites>>
    /\ UNCHANGED notPipeVars

\* the timer fires: controller.abort() makes the pending fetch reject
TimeoutAborts ==
    /\ pc = "fetching" /\ timer
    /\ timer' = FALSE
    /\ Fail("abort")
    /\ UNCHANGED <<op, source, arg, response, sent, fetches, extracted, books, respondWrites>>
    /\ UNCHANGED notPipeVars

\* response.text() rejects
BodyRejects ==
    /\ pc = "reading"
    /\ Fail("bodyError")
    /\ UNCHANGED <<op, source, arg, response, sent, fetches, timer, extracted, books,
                   respondWrites>>
    /\ UNCHANGED notPipeVars

\* searchBooks after the loop, up to `await updateSourceRespondTime(...)`
AfterLoop(x) ==
    IF x.threw
    THEN Fail("ruleError") /\ UNCHANGED books
    ELSE /\ books' = x.value
         /\ pc' = "recording"
         /\ UNCHANGED <<outcome, result>>

\* searchBooks from the body to `await updateSourceRespondTime(...)`
SearchBodyArrives ==
    /\ pc = "reading" /\ op = "searchBooks"
    /\ AfterLoop(SearchBooksOf(response, source))
    /\ UNCHANGED <<op, source, arg, response, sent, fetches, timer, extracted, respondWrites>>
    /\ UNCHANGED notPipeVars

\* updateSourceRespondTime resolves: searchBooks returns books
RecordSucceeds ==
    /\ pc = "recording"
    /\ respondWrites' = respondWrites + 1
    /\ pc' = "returned"
    /\ outcome' = "ok"
    /\ result' = books
    /\ UNCHANGED <<op, source, arg, response, sent, fetches, timer, extracted, books>>
    /\ UNCHANGED notPipeVars

\* updateSourceRespondTime rejects (the database write fails)
RecordFails ==
    /\ pc = "recording"
    /\ Fail("recordError")
    /\ UNCHANGED <<op, source, arg, response, sent, fetches, timer, extracted, books,
                   respondWrites>>
    /\ UNCHANGED notPipeVars

\* the rest of an operation that returns what it extracted
Finish(x) ==
    IF x.threw
    THEN Fail("ruleError")
    ELSE /\ pc' = "returned"
         /\ outcome' = "ok"
         /\ result' = x.value

\* getChapterContent after the extraction
FinishContent(x) ==
    /\ Finish(x)
    /\ extracted' = IF x.threw THEN extracted ELSE x.extracted

InfoBodyArrives ==
    /\ pc = "reading" /\ op = "getBookInfo"
    /\ Finish(BookInfoOf(response, source, arg.bookUrl))
    /\ UNCHANGED <<op, source, arg, response, sent, fetches, timer, extracted, books,
                   respondWrites>>
    /\ UNCHANGED notPipeVars

TocBodyArrives ==
    /\ pc = "reading" /\ op = "getBookToc"
    /\ Finish(TocOf(response, source, [id |-> arg.bookId]))
    /\ UNCHANGED <<op, source, arg, response, sent, fetches, timer, extracted, books,
                   respondWrites>>
    /\ UNCHANGED notPipeVars

ContentBodyArrives ==
    /\ pc = "reading" /\ op = "getChapterContent"
    /\ FinishContent(ChapterContentOf(response, source))
    /\ UNCHANGED <<op, source, arg, response, sent, fetches, timer, books, respondWrites>>
    /\ UNCHANGED notPipeVars

NextPipe ==
    \/ CallSearchBooks
    \/ CallGetBookInfo
    \/ CallGetBookToc
    \/ CallGetChapterContent
    \/ FetchResolves
    \/ FetchRejects
    \/ TimeoutAborts
    \/ BodyRejects
    \/ SearchBodyArrives
    \/ RecordSucceeds
    \/ RecordFails
    \/ InfoBodyArrives
    \/ TocBodyArrives
    \/ ContentBodyArrives

-----------------------------------------------------------------------------
(* Import of book sources: parseBookSourceJson over the entries of a JSON  *)
(* array, then importBookSources over the book sources it recognised.  An  *)
(* entry is null, or a value with the set of fields it carries (a number   *)
(* or a string carries none); persists tells whether its INSERT succeeds.  *)

\* the other components at rest
RuleIdle ==
    /\ content = <<>>
    /\ baseUrl = <<>>
    /\ ruleA = NoParts
    /\ comb = "none"
    /\ ruleB = NoParts
    /\ ruleOp = "new"
    /\ results = <<>>
    /\ ruleThrew = FALSE

UrlIdle ==
    /\ urlImpl = "AnalyzeRule"
    /\ urlBase = <<>>
    /\ urlIn = <<>>
    /\ urlOnce = <<>>
    /\ urlOut = <<>>
    /\ urlApplied = 0
    /\ urlThrew = FALSE

TplIdle ==
    /\ urlTemplate = <<>>
    /\ tplBase = <<>>
    /\ key = <<>>
    /\ page = 1
    /\ headers = <<>>
    /\ tplOp = "new"
    /\ request = NoRequest

PipeIdle ==
    /\ op = "searchBooks"
    /\ source = NoSource
    /\ arg = NoArg
    /\ response = <<>>
    /\ pc = "idle"
    /\ outcome = "pending"
    /\ sent = NoRequest
    /\ fetches = 0
    /\ timer = FALSE
    /\ extracted = <<>>
    /\ books = <<>>
    /\ result = <<>>
    /\ respondWrites = 0

Entries ==
    { [isNull |-> FALSE, fields |-> {"bookSourceUrl", "bookSourceName"}, name |-> "A",
       persists |-> TRUE],
      [isNull |-> FALSE, fields |-> {"searchUrl"}, name |-> "B", persists |-> TRUE],
      [isNull |-> FALSE, fields |-> {"bookSourceUrl", "ruleSearch"}, name |-> "C",
       persists |-> FALSE],
      [isNull |-> FALSE, fields |-> {"sourceUrl", "ruleArticles"}, name |-> "R",
       persists |-> TRUE],
      [isNull |-> FALSE, fields |-> {"sourceUrl", "bookSourceUrl"}, name |-> "D",
       persists |-> TRUE],
      [isNull |-> FALSE, fields |-> {"title"}, name |-> "U", persists |-> TRUE],
      [isNull |-> FALSE, fields |-> {}, name |-> "5", persists |-> TRUE],
      [isNull |-> TRUE, fields |-> {}, name |-> "null", persists |-> FALSE] }

\* source.bookSourceUrl || source.searchUrl || source.ruleSearch
IsBookSource(e) == e.fields \cap {"bookSourceUrl", "searchUrl", "ruleSearch"} # {}

\* source.ruleArticles || source.sortUrl ||
\* (source.sourceUrl && !source.bookSourceUrl && !source.searchUrl)
IsRssSource(e) ==
    \/ e.fields \cap {"ruleArticles", "sortUrl"} # {}
    \/ "sourceUrl" \in e.fields /\ e.fields \cap {"bookSourceUrl", "searchUrl"} = {}

RECURSIVE Categorize(_, _)
\* the loop of parseBookSourceJson: reading a field of null throws, and the
\* catch around the loop returns what was categorized so far
Categorize(entries, acc) ==
    IF entries = <<>> \/ Head(entries).isNull THEN acc
    ELSE Categorize(Tail(entries),
             IF IsBookSource(Head(entries))
             THEN [acc EXCEPT !.bookSources = Append(@, Head(entries))]
             ELSE IF IsRssSource(Head(entries))
             THEN [acc EXCEPT !.rssSources = Append(@, Head(entries))]
             ELSE acc)

\* parseBookSourceJson on the text of a JSON array
parseBookSourceJson(entries) ==
    Categorize(entries, [bookSources |-> <<>>, rssSources |-> <<>>])

InitImport ==
    /\ json \in SeqsUpTo(Entries, MaxEntries)
    /\ bookSources = <<>>
    /\ rssSources = <<>>
    /\ imPc = "new"
    /\ imIndex = 0
    /\ stored = <<>>
    /\ count = 0
    /\ RuleIdle
    /\ UrlIdle
    /\ TplIdle
    /\ PipeIdle
    /\ AppIdle

\* parseBookSourceJson(json), then importBookSources up to its loop
ParseJson ==
    /\ imPc = "new"
    /\ bookSources' = parseBookSourceJson(json).bookSources
    /\ rssSources' = parseBookSourceJson(json).rssSources
    /\ imPc' = "importing"
    /\ UNCHANGED <<json, imIndex, stored, count>>
    /\ UNCHANGED notImportVars

\* one turn of the loop: addBookSource resolves, count++
AddSucceeds ==
    /\ imPc = "importing"
    /\ imIndex < Len(bookSources)
    /\ bookSources[imIndex + 1].persists
    /\ stored' = Append(stored, bookSources[imIndex + 1].name)
    /\ count' = count + 1
    /\ imIndex' = imIndex + 1
    /\ UNCHANGED <<json, bookSources, rssSources, imPc>>
    /\ UNCHANGED notImportVars

\* one turn of the loop: addBookSource rejects, the catch logs and goes on
AddFails ==
    /\ imPc = "importing"
    /\ imIndex < Len(bookSources)
    /\ ~bookSources[imIndex + 1].persists
    /\ imIndex' = imIndex + 1
    /\ UNCHANGED <<json, bookSources, rssSources, imPc, stored, count>>
    /\ UNCHANGED notImportVars

\* the loop is over: return count
ImportReturns ==
    /\ imPc = "importing"
    /\ imIndex = Len(bookSources)
    /\ imPc' = "done"
    /\ UNCHANGED <<json, bookSources, rssSources, imIndex, stored, count>>
    /\ UNCHANGED notImportVars

NextImport ==
    \/ ParseJson
    \/ AddSucceeds
    \/ AddFails
    \/ ImportReturns

-----------------------------------------------------------------------------
(* Concurrent searches.  A call runs without interruption between two      *)
(* awaits, so its steps are: up to `await fetch`, from the body to `await  *)
(* updateSourceRespondTime` (the whole extraction loop), and the return.   *)

\* all core components at rest
CoreIdle ==
    /\ RuleIdle
    /\ UrlIdle
    /\ TplIdle
    /\ PipeIdle
    /\ ImportIdle

\* one module-level parser and books list used by every call
SharedBinding(c) == 1

\* `const parser = new RuleParser(...)` and `const books = []` are bindings
\* of the call: every call has its own
OwnBinding(c) == c

ConcSources ==
    { [NoSource EXCEPT !.id = i, !.bookSourceUrl = b, !.searchUrl = GetSearchUrl,
                       !.ruleSearch = TypicalRuleSearch] :
        i \in {"s1"}, b \in {<<>>, SiteUrl} }
    \cup
    { [NoSource EXCEPT !.id = "s2", !.bookSourceUrl = SiteUrl, !.searchUrl = GetSearchUrl,
                       !.ruleSearch = [TypicalRuleSearch EXCEPT !.name = <<".author">>]] }

ConcPages ==
    { <<>>,
      << Item(".item", << Leaf(".title", <<"Book1">>, <<"/", "b", "/", "1">>),
                          Leaf(".author", <<"Ann">>, <<>>) >>) >>,
      << Item(".item", << Leaf(".title", <<"Book2">>, SiteUrl \o <<"/", "b", "/", "2">>) >>),
         Item(".item", << Leaf(".title", <<"Book1">>, <<"/", "b", "/", "1">>),
                          Leaf(".author", <<"Ann">>, <<>>) >>) >> }

InitConc ==
    /\ callSource \in [Calls -> ConcSources]
    /\ callPage \in [Calls -> ConcPages]
    /\ callPc = [c \in Calls |-> "idle"]
    /\ callOutcome = [c \in Calls |-> "pending"]
    /\ callResult = [c \in Calls |-> <<>>]
    /\ parsers = [c \in Calls |-> [doc |-> <<>>, base |-> <<>>]]
    /\ bookLists = [c \in Calls |-> <<>>]
    /\ CoreIdle
    /\ ReaderIdle
    /\ SearchIdle
    /\ TtsIdle
    /\ JsIdle

\* searchBooks(source, keyword) up to `await fetch(...)`
ConcCall(c) ==
    /\ callPc[c] = "idle"
    /\ callPc' = [callPc EXCEPT ![c] = "fetching"]
    /\ UNCHANGED <<callSource, callPage, callOutcome, callResult, parsers, bookLists>>
    /\ UNCHANGED notConcVars

\* the catch of searchBooks: return []
ConcFail(c, why) ==
    /\ callPc' = [callPc EXCEPT ![c] = "returned"]
    /\ callOutcome' = [callOutcome EXCEPT ![c] = why]
    /\ callResult' = [callResult EXCEPT ![c] = <<>>]

\* the fetch of the call rejects
ConcFetchFails(c) ==
    /\ callPc[c] = "fetching"
    /\ ConcFail(c, "netError")
    /\ UNCHANGED <<callSource, callPage, parsers, bookLists>>
    /\ UNCHANGED notConcVars

\* the extraction loop run on the parser p, filling the call's books
ConcExtract(c, p) ==
    /\ parsers' = [parsers EXCEPT ![OwnBinding(c)] = p]
    /\ bookLists' = [bookLists EXCEPT ![OwnBinding(c)] =
                        SearchBooksOf(p.doc, [callSource[c] EXCEPT !.bookSourceUrl = p.base]).value]

\* the body arrives: new RuleParser(html, source.bookSourceUrl), the loop
\* over the matched elements, up to `await updateSourceRespondTime(...)`
ConcBodyArrives(c) ==
    /\ callPc[c] = "fetching"
    /\ ConcExtract(c, [doc |-> callPage[c], base |-> callSource[c].bookSourceUrl])
    /\ callPc' = [callPc EXCEPT ![c] = "recording"]
    /\ UNCHANGED <<callSource, callPage, callOutcome, callResult>>
    /\ UNCHANGED notConcVars

\* updateSourceRespondTime resolves: return books
ConcReturns(c) ==
    /\ callPc[c] = "recording"
    /\ callPc' = [callPc EXCEPT ![c] = "returned"]
    /\ callOutcome' = [callOutcome EXCEPT ![c] = "ok"]
    /\ callResult' = [callResult EXCEPT ![c] = bookLists[OwnBinding(c)]]
    /\ UNCHANGED <<callSource, callPage, parsers, bookLists>>
    /\ UNCHANGED notConcVars

\* updateSourceRespondTime rejects
ConcRecordFails(c) ==
    /\ callPc[c] = "recording"
    /\ ConcFail(c, "recordError")
    /\ UNCHANGED <<callSource, callPage, parsers, bookLists>>
    /\ UNCHANGED notConcVars

NextConc ==
    \/ \E c \in Calls : ConcCall(c)
    \/ \E c \in Calls : ConcFetchFails(c)
    \/ \E c \in Calls : ConcBodyArrives(c)
    \/ \E c \in Calls : ConcReturns(c)
    \/ \E c \in Calls : ConcRecordFails(c)

-----------------------------------------------------------------------------
(* The reader store over the tables books, chapters, book_sources and      *)
(* content_cache.  A loadChapter call is a frame of `loads`; it runs       *)
(* without interruption between two awaits, so it has one step per await.  *)

\* the book on the shelf, its source and the titles of its chapters
TheBook == [id |-> "b1", sourceId |-> "s1"]

BookChapters == <<"c0", "c1">>

\* '加载失败', shown when there is no content
Placeholder == <<"loadFailed">>

\* what the source serves for chapter i
ChapterText(i) == <<"ad", "text", ToString(i)>>

\* applyReplaceRules with one enabled rule, which deletes "ad"
applyReplaceRules(str) == ReplaceLexemes(str, {"ad"}, <<>>)

\* the guard of loadChapter with the upper limit one too far
OutsideBeyond(chs, index) == index < 0 \/ index > Len(chs)

\* index < 0 || index >= chapters.length
Outside(chs, index) == index < 0 \/ index >= Len(chs)

\* getChapterContent entered whether or not the source row was found
SourceAssumed(rows, id) == TRUE

\* if (source), for source = await getBookSourceById(book.sourceId)
SourceFound(rows, id) == id \in rows

\* the frame of a call: the function called, its argument, where it stands,
\* and its local `content` while it is live
Frame(via, index, pcOf) ==
    [via |-> via, index |-> index, pc |-> pcOf, content |-> <<>>,
     sourceNull |-> FALSE, progressIdx |-> 0]

\* the call of frame fr is between two of its awaits
Pending(fr) == fr.pc \notin {"noop", "done", "threw"}

\* what is left of the frame fr once its call has returned: that it has, and
\* whether it had found the source row missing
Returned(fr) == [Frame("loadChapter", 0, "done") EXCEPT !.sourceNull = fr.sourceNull]

\* loadChapter(index) up to `await getCachedContent(...)`, the store holding
\* the book bk and the chapters chs
LoadChapterCall(via, bk, chs, index) ==
    /\ Len(loads) < MaxLoads
    /\ IF bk = NoBook \/ Outside(chs, index)
       THEN /\ loads' = Append(loads, Frame(via, index, "noop"))
            /\ UNCHANGED <<currentChapterIndex, currentChapter, loading, cacheReads>>
       ELSE /\ loads' = Append(loads, Frame(via, index, "cache"))
            /\ loading' = TRUE
            /\ currentChapterIndex' = index
            /\ currentChapter' = IF index + 1 \in DOMAIN chs THEN chs[index + 1] ELSE "none"
            /\ cacheReads' = cacheReads + 1

InitReader ==
    /\ ReaderIdle
    /\ CoreIdle
    /\ ConcIdle
    /\ SearchIdle
    /\ TtsIdle
    /\ JsIdle

\* openBook(bookId) from set({ book, chapters, currentChapterIndex }) to the
\* first await of get().loadChapter(book.durChapterIndex)
OpenBook ==
    /\ readerBook = NoBook
    /\ readerBook' = TheBook
    /\ readerChapters' = BookChapters
    /\ LoadChapterCall("loadChapter", TheBook, BookChapters, durChapterIndex)
    /\ UNCHANGED <<readerContent, useReplaceRule, contentCache, sourceRows, bookRows,
                   chapterRows, durChapterIndex, lastSetter, chapterFetches, configRaced>>
    /\ UNCHANGED notReaderVars

\* loadChapter(index) called from the chapter list
LoadChapter(index) ==
    /\ LoadChapterCall("loadChapter", readerBook, readerChapters, index)
    /\ UNCHANGED <<readerBook, readerChapters, readerContent, useReplaceRule, contentCache,
                   sourceRows, bookRows, chapterRows, durChapterIndex, lastSetter,
                   chapterFetches, configRaced>>
    /\ UNCHANGED notReaderVars

\* a call of nextChapter or prevChapter whose guard is false: nothing is
\* done; when the guard is true the call is get().loadChapter(index +- 1)
Ignored(via) ==
    /\ Len(loads) < MaxLoads
    /\ loads' = Append(loads, Frame(via, 0, "noop"))
    /\ UNCHANGED <<currentChapterIndex, currentChapter, loading, cacheReads>>

NextChapter ==
    /\ IF currentChapterIndex < Len(readerChapters) - 1
       THEN LoadChapterCall("loadChapter", readerBook, readerChapters, currentChapterIndex + 1)
       ELSE Ignored("nextChapter")
    /\ UNCHANGED <<readerBook, readerChapters, readerContent, useReplaceRule, contentCache,
                   sourceRows, bookRows, chapterRows, durChapterIndex, lastSetter,
                   chapterFetches, configRaced>>
    /\ UNCHANGED notReaderVars

PrevChapter ==
    /\ IF currentChapterIndex > 0
       THEN LoadChapterCall("loadChapter", readerBook, readerChapters, currentChapterIndex - 1)
       ELSE Ignored("prevChapter")
    /\ UNCHANGED <<readerBook, readerChapters, readerContent, useReplaceRule, contentCache,
                   sourceRows, bookRows, chapterRows, durChapterIndex, lastSetter,
                   chapterFetches, configRaced>>
    /\ UNCHANGED notReaderVars

\* set({ content: content || '加载失败' }) by call f with its local content c,
\* then updateProgress(0) up to `await updateReadProgress(...)`
Show(f, c, sourceNull) ==
    /\ readerContent' = IF c # <<>> THEN c ELSE Placeholder
    /\ lastSetter' = f
    /\ loads' = [loads EXCEPT ![f].content = <<>>,
                              ![f].sourceNull = sourceNull,
                              ![f].pc = "progress",
                              ![f].progressIdx =
                                  IF currentChapter # "none" THEN currentChapterIndex ELSE -1]

\* getCachedContent answers call f
CacheAnswers(f) ==
    /\ f \in DOMAIN loads
    /\ loads[f].pc = "cache"
    /\ IF contentCache[loads[f].index + 1] # <<>>
       THEN Show(f, contentCache[loads[f].index + 1], FALSE)
       ELSE IF readerBook.sourceId # ""
       THEN /\ loads' = [loads EXCEPT ![f].pc = "source"]
            /\ UNCHANGED <<readerContent, lastSetter>>
       ELSE Show(f, <<>>, FALSE)
    /\ UNCHANGED <<readerBook, readerChapters, currentChapterIndex, currentChapter, loading,
                   useReplaceRule, contentCache, sourceRows, bookRows, chapterRows,
                   durChapterIndex, cacheReads, chapterFetches, configRaced>>
    /\ UNCHANGED notReaderVars

\* getBookSourceById answers call f; getChapterContent(null, chapter) throws
\* a TypeError, which leaves loadChapter through its finally
SourceAnswers(f) ==
    /\ f \in DOMAIN loads
    /\ loads[f].pc = "source"
    /\ IF SourceFound(sourceRows, readerBook.sourceId)
       THEN IF readerBook.sourceId \in sourceRows
            THEN /\ loads' = [loads EXCEPT ![f].pc = "fetch"]
                 /\ chapterFetches' = chapterFetches + 1
                 /\ UNCHANGED <<readerContent, lastSetter, loading>>
            ELSE /\ loads' = [loads EXCEPT ![f].pc = "threw", ![f].sourceNull = TRUE]
                 /\ loading' = FALSE
                 /\ UNCHANGED <<readerContent, lastSetter, chapterFetches>>
       ELSE /\ Show(f, <<>>, TRUE)
            /\ UNCHANGED <<loading, chapterFetches>>
    /\ UNCHANGED <<readerBook, readerChapters, currentChapterIndex, currentChapter,
                   useReplaceRule, contentCache, sourceRows, bookRows, chapterRows,
                   durChapterIndex, cacheReads, configRaced>>
    /\ UNCHANGED notReaderVars

\* getChapterContent resolves for call f with the text c ('' when it failed);
\* get().config.useReplaceRule decides whether applyReplaceRules is awaited
ContentArrives(f, c) ==
    /\ f \in DOMAIN loads
    /\ loads[f].pc = "fetch"
    /\ loads' = [loads EXCEPT ![f].content = c,
                              ![f].pc = IF useReplaceRule THEN "replace" ELSE "store"]
    /\ UNCHANGED <<readerBook, readerChapters, currentChapterIndex, currentChapter,
                   readerContent, loading, useReplaceRule, contentCache, sourceRows, bookRows,
                   chapterRows, durChapterIndex, lastSetter, cacheReads, chapterFetches, configRaced>>
    /\ UNCHANGED notReaderVars

ChapterArrives(f) == f \in DOMAIN loads /\ ContentArrives(f, ChapterText(loads[f].index))

ChapterFails(f) == f \in DOMAIN loads /\ ContentArrives(f, <<>>)

\* applyReplaceRules resolves for call f
ReplaceDone(f) ==
    /\ f \in DOMAIN loads
    /\ loads[f].pc = "replace"
    /\ loads' = [loads EXCEPT ![f].content = applyReplaceRules(@), ![f].pc = "store"]
    /\ UNCHANGED <<readerBook, readerChapters, currentChapterIndex, currentChapter,
                   readerContent, loading, useReplaceRule, contentCache, sourceRows, bookRows,
                   chapterRows, durChapterIndex, lastSetter, cacheReads, chapterFetches, configRaced>>
    /\ UNCHANGED notReaderVars

\* cacheContent resolves for call f: the row is written, the content is shown
CacheWritten(f) ==
    /\ f \in DOMAIN loads
    /\ loads[f].pc = "store"
    /\ contentCache' = [contentCache EXCEPT ![loads[f].index + 1] = loads[f].content]
    /\ Show(f, loads[f].content, FALSE)
    /\ UNCHANGED <<readerBook, readerChapters, currentChapterIndex, currentChapter, loading,
                   useReplaceRule, sourceRows, bookRows, chapterRows, durChapterIndex,
                   cacheReads, chapterFetches, configRaced>>
    /\ UNCHANGED notReaderVars

\* updateReadProgress resolves for call f; finally set({ loading: false })
ProgressWritten(f) ==
    /\ f \in DOMAIN loads
    /\ loads[f].pc = "progress"
    /\ durChapterIndex' = IF loads[f].progressIdx >= 0 THEN loads[f].progressIdx
                          ELSE durChapterIndex
    /\ loading' = FALSE
    /\ loads' = [loads EXCEPT ![f] = Returned(@)]
    /\ UNCHANGED <<readerBook, readerChapters, currentChapterIndex, currentChapter,
                   readerContent, useReplaceRule, contentCache, sourceRows, bookRows,
                   chapterRows, lastSetter, cacheReads, chapterFetches, configRaced>>
    /\ UNCHANGED notReaderVars

\* deleteBookSource(id): DELETE FROM book_sources WHERE id = ?
DeleteBookSource ==
    /\ sourceRows # {}
    /\ sourceRows' = sourceRows \ {TheBook.sourceId}
    /\ UNCHANGED <<readerBook, readerChapters, currentChapterIndex, currentChapter,
                   readerContent, loading, useReplaceRule, contentCache, bookRows,
                   chapterRows, durChapterIndex, loads, lastSetter, cacheReads,
                   chapterFetches, configRaced>>
    /\ UNCHANGED notReaderVars

\* updateConfig({ useReplaceRule: !useReplaceRule })
UpdateConfig ==
    /\ useReplaceRule' = ~useReplaceRule
    /\ configRaced' = (configRaced \/ \E f \in DOMAIN loads : Pending(loads[f]))
    /\ UNCHANGED <<readerBook, readerChapters, currentChapterIndex, currentChapter,
                   readerContent, loading, contentCache, sourceRows, bookRows, chapterRows,
                   durChapterIndex, loads, lastSetter, cacheReads, chapterFetches>>
    /\ UNCHANGED notReaderVars

NextReader ==
    \/ OpenBook
    \/ \E index \in -1..Len(BookChapters) : LoadChapter(index)
    \/ NextChapter
    \/ PrevChapter
    \/ \E f \in 1..MaxLoads : CacheAnswers(f)
    \/ \E f \in 1..MaxLoads : SourceAnswers(f)
    \/ \E f \in 1..MaxLoads : ChapterArrives(f)
    \/ \E f \in 1..MaxLoads : ChapterFails(f)
    \/ \E f \in 1..MaxLoads : ReplaceDone(f)
    \/ \E f \in 1..MaxLoads : CacheWritten(f)
    \/ \E f \in 1..MaxLoads : ProgressWritten(f)
    \/ DeleteBookSource
    \/ UpdateConfig

-----------------------------------------------------------------------------
(* The search store.  A search() call is a frame of `searches`: its        *)
(* keyword, where it stands, its local allResults and the sources whose    *)
(* searchBooks it still awaits.                                            *)

\* the names of the sources getEnabledBookSources answers with
EnabledSources == <<"Source 1", "Source 2">>

\* what the user types into the search field
SearchKeywords == {<<" ">>, <<"a">>, <<"b">>}

\* the books searchBooks(source, keyword) resolves to for call f
FoundBooks(f, src, kw) == <<[by |-> f, source |-> src, name |-> kw]>>

SearchFrame(kw, pcOf) == [keyword |-> kw, pc |-> pcOf, allResults |-> <<>>, waiting |-> {}]

InitSearch ==
    /\ SearchIdle
    /\ CoreIdle
    /\ ConcIdle
    /\ ReaderIdle
    /\ TtsIdle
    /\ JsIdle

\* setKeyword(keyword)
SetKeyword(k) ==
    /\ searchKeyword' = k
    /\ UNCHANGED <<searchResults, searchLoading, searchingSources, searches, latest>>
    /\ UNCHANGED notSearchVars

\* search() up to `await getEnabledBookSources()`
Search ==
    /\ Len(searches) < MaxSearches
    /\ IF Trim(searchKeyword) = <<>>
       THEN /\ searches' = Append(searches, SearchFrame(searchKeyword, "returned"))
            /\ UNCHANGED <<searchResults, searchLoading, searchingSources, latest>>
       ELSE /\ searches' = Append(searches, SearchFrame(searchKeyword, "sources"))
            /\ searchLoading' = TRUE
            /\ searchResults' = <<>>
            /\ searchingSources' = <<>>
            /\ latest' = Len(searches) + 1
    /\ UNCHANGED searchKeyword
    /\ UNCHANGED notSearchVars

\* getEnabledBookSources answers call f: every source is marked as being
\* searched and its searchBooks is started
SourcesArrive(f) ==
    /\ f \in DOMAIN searches
    /\ searches[f].pc = "sources"
    /\ searches' = [searches EXCEPT ![f].pc = "searching",
                                    ![f].waiting = DOMAIN EnabledSources]
    /\ searchingSources' = searchingSources \o EnabledSources
    /\ UNCHANGED <<searchKeyword, searchResults, searchLoading, latest>>
    /\ UNCHANGED notSearchVars

\* searchBooks of source i resolves to bks for call f; when it was the last
\* one, Promise.all resolves and the finally sets loading to false
BooksArrive(f, i, bks, left) ==
    /\ searches[f].pc = "searching"
    /\ i \in searches[f].waiting
    /\ searches' = [searches EXCEPT ![f].allResults = @ \o bks,
                                    ![f].waiting = left,
                                    ![f].pc = IF left = {} THEN "returned" ELSE "searching"]
    /\ searchResults' = searches[f].allResults \o bks
    /\ searchingSources' = SelectSeq(searchingSources, LAMBDA n : n # EnabledSources[i])
    /\ searchLoading' = IF left = {} THEN FALSE ELSE searchLoading
    /\ UNCHANGED <<searchKeyword, latest>>
    /\ UNCHANGED notSearchVars

BooksFound(f, i) ==
    /\ f \in DOMAIN searches
    /\ i \in DOMAIN EnabledSources
    /\ BooksArrive(f, i, FoundBooks(f, EnabledSources[i], searches[f].keyword),
                   searches[f].waiting \ {i})

NothingFound(f, i) ==
    /\ f \in DOMAIN searches
    /\ i \in DOMAIN EnabledSources
    /\ BooksArrive(f, i, <<>>, searches[f].waiting \ {i})

\* clear()
Clear ==
    /\ searchKeyword' = <<>>
    /\ searchResults' = <<>>
    /\ searchingSources' = <<>>
    /\ latest' = 0
    /\ UNCHANGED <<searchLoading, searches>>
    /\ UNCHANGED notSearchVars

NextSearch ==
    \/ \E k \in SearchKeywords : SetKeyword(k)
    \/ Search
    \/ \E f \in 1..MaxSearches : SourcesArrive(f)
    \/ \E f \in 1..MaxSearches, i \in DOMAIN EnabledSources : BooksFound(f, i)
    \/ \E f \in 1..MaxSearches, i \in DOMAIN EnabledSources : NothingFound(f, i)
    \/ Clear

-----------------------------------------------------------------------------
(* The TTS service over expo-speech.  Speech.speak queues an utterance,    *)
(* Speech.stop empties the queue; onStart, onDone and onStopped are        *)
(* delivered later, each as a step of its own.                             *)

\* chapter contents, "\n" being the line break
ChapterContents ==
    { <<>>,
      <<"p0">>,
      <<"p0", "\n", "p1">>,
      <<" ", "p0", "\n", " ", "\n", "p1", "\n">>,
      <<"p0", "\n", "\n", "p1", "\n", "p2">> }

\* content.split('\n').map(p => p.trim()).filter(p => p.length > 0)
Paragraphs(str) ==
    LET lines == Split(str, "\n")
    IN  SelectSeq([i \in DOMAIN lines |-> Trim(lines[i])], LAMBDA p : Len(p) > 0)

\* updateState(...) notifies the listeners: the one speakChapter subscribed
\* while paused resolves its promise when !state.paused || !state.speaking
Notified(speaking, paused) ==
    IF chapterPc = "waitResume" /\ (~paused \/ ~speaking) THEN "resumed" ELSE chapterPc

\* speak(text) by caller o up to `await Speech.stop()` inside stop()
SpeakCall(o) ==
    /\ speakPc' = [speakPc EXCEPT ![o] = "stopping"]
    /\ stoppedEvents' = stoppedEvents \cup {speechQueue[q].by : q \in DOMAIN speechQueue}
    /\ speechQueue' = <<>>

\* onParagraphChange?.(i), then this.speak(paragraphs[i], ...) in a promise
Announce(i) ==
    /\ started' = Append(started, i)
    /\ chapterPc' = "uttering"
    /\ SpeakCall("chapter")

\* the head of the for loop of speakChapter with i = index
LoopHead(index, paras) ==
    /\ chapterI' = index
    /\ IF index >= Len(paras) \/ (~ttsSpeaking /\ ~ttsPaused)
       THEN /\ chapterPc' = "returned"
            /\ UNCHANGED <<started, speakPc, stoppedEvents, speechQueue>>
       ELSE IF ttsPaused
       THEN /\ chapterPc' = "waitResume"
            /\ UNCHANGED <<started, speakPc, stoppedEvents, speechQueue>>
       ELSE Announce(index)

\* the promise speakChapter awaits for its paragraph is resolved
Resolved(o) ==
    IF o = "chapter" /\ chapterPc = "uttering"
    THEN chapterPc' = "head" /\ chapterI' = chapterI + 1
    ELSE UNCHANGED <<chapterPc, chapterI>>

InitTts ==
    /\ TtsIdle
    /\ CoreIdle
    /\ ConcIdle
    /\ ReaderIdle
    /\ SearchIdle
    /\ JsIdle

\* speakChapter(content, onParagraphChange) up to its first await
SpeakChapter(str) ==
    /\ chapterPc = "idle"
    /\ paragraphs' = Paragraphs(str)
    /\ idleAtCall' = (~ttsSpeaking /\ ~ttsPaused)
    /\ LoopHead(0, Paragraphs(str))
    /\ UNCHANGED <<ttsSpeaking, ttsPaused, stopCalled, uiSpeaks>>
    /\ UNCHANGED notTtsVars

\* speakChapter goes on after the promise of its paragraph was resolved
ChapterContinues ==
    /\ chapterPc = "head"
    /\ LoopHead(chapterI, paragraphs)
    /\ UNCHANGED <<ttsSpeaking, ttsPaused, paragraphs, stopCalled, idleAtCall, uiSpeaks>>
    /\ UNCHANGED notTtsVars

\* speakChapter goes on after the wait for resume
ChapterResumes ==
    /\ chapterPc = "resumed"
    /\ Announce(chapterI)
    /\ UNCHANGED <<ttsSpeaking, ttsPaused, chapterI, paragraphs, stopCalled, idleAtCall,
                   uiSpeaks>>
    /\ UNCHANGED notTtsVars

\* speak(text) called by the user interface
UiSpeak ==
    /\ uiSpeaks < MaxUiSpeaks
    /\ speakPc["ui"] = "none"
    /\ uiSpeaks' = uiSpeaks + 1
    /\ SpeakCall("ui")
    /\ UNCHANGED <<ttsSpeaking, ttsPaused, chapterPc, chapterI, paragraphs, started,
                   stopCalled, idleAtCall>>
    /\ UNCHANGED notTtsVars

\* stop() called by the user interface
Stop ==
    /\ speakPc["stop"] = "none"
    /\ stopCalled' = TRUE
    /\ SpeakCall("stop")
    /\ UNCHANGED <<ttsSpeaking, ttsPaused, chapterPc, chapterI, paragraphs, started,
                   idleAtCall, uiSpeaks>>
    /\ UNCHANGED notTtsVars

\* Speech.stop() resolves for caller o: stop() sets speaking and paused to
\* false and returns
StopResolves(o) ==
    /\ speakPc[o] = "stopping"
    /\ ttsSpeaking' = FALSE
    /\ ttsPaused' = FALSE
    /\ chapterPc' = Notified(FALSE, FALSE)
    /\ speakPc' = [speakPc EXCEPT ![o] = IF o = "stop" THEN "none" ELSE "starting"]
    /\ UNCHANGED <<speechQueue, stoppedEvents, chapterI, paragraphs, started, stopCalled,
                   idleAtCall, uiSpeaks>>
    /\ UNCHANGED notTtsVars

\* speak() of caller o after `await this.stop()`: speaking is set and the
\* utterance is handed to Speech.speak
SpeakStarts(o) ==
    /\ speakPc[o] = "starting"
    /\ ttsSpeaking' = TRUE
    /\ ttsPaused' = FALSE
    /\ chapterPc' = Notified(TRUE, FALSE)
    /\ speechQueue' = Append(speechQueue, [by |-> o, begun |-> FALSE])
    /\ speakPc' = [speakPc EXCEPT ![o] = "none"]
    /\ UNCHANGED <<stoppedEvents, chapterI, paragraphs, started, stopCalled, idleAtCall,
                   uiSpeaks>>
    /\ UNCHANGED notTtsVars

\* onStart of the utterance at the head of the queue
UtteranceStarts ==
    /\ speechQueue # <<>>
    /\ ~speechQueue[1].begun
    /\ speechQueue' = [speechQueue EXCEPT ![1].begun = TRUE]
    /\ ttsSpeaking' = TRUE
    /\ ttsPaused' = FALSE
    /\ chapterPc' = Notified(TRUE, FALSE)
    /\ UNCHANGED <<speakPc, stoppedEvents, chapterI, paragraphs, started, stopCalled,
                   idleAtCall, uiSpeaks>>
    /\ UNCHANGED notTtsVars

\* onDone of the utterance at the head of the queue
UtteranceDone ==
    /\ speechQueue # <<>>
    /\ speechQueue[1].begun
    /\ ~ttsPaused
    /\ speechQueue' = Tail(speechQueue)
    /\ ttsSpeaking' = FALSE
    /\ ttsPaused' = FALSE
    /\ Resolved(speechQueue[1].by)
    /\ UNCHANGED <<speakPc, stoppedEvents, paragraphs, started, stopCalled, idleAtCall,
                   uiSpeaks>>
    /\ UNCHANGED notTtsVars

\* onStopped of an utterance of caller o that Speech.stop() removed
UtteranceStopped(o) ==
    /\ o \in stoppedEvents
    /\ stoppedEvents' = stoppedEvents \ {o}
    /\ ttsSpeaking' = FALSE
    /\ ttsPaused' = FALSE
    /\ IF chapterPc = "waitResume"
       THEN chapterPc' = "resumed" /\ UNCHANGED chapterI
       ELSE Resolved(o)
    /\ UNCHANGED <<speakPc, speechQueue, paragraphs, started, stopCalled, idleAtCall,
                   uiSpeaks>>
    /\ UNCHANGED notTtsVars

\* pause()
Pause ==
    /\ ttsSpeaking /\ ~ttsPaused
    /\ ttsPaused' = TRUE
    /\ UNCHANGED <<ttsSpeaking, speakPc, speechQueue, stoppedEvents, chapterPc, chapterI,
                   paragraphs, started, stopCalled, idleAtCall, uiSpeaks>>
    /\ UNCHANGED notTtsVars

\* resume()
Resume ==
    /\ ttsSpeaking /\ ttsPaused
    /\ ttsPaused' = FALSE
    /\ chapterPc' = Notified(TRUE, FALSE)
    /\ UNCHANGED <<ttsSpeaking, speakPc, speechQueue, stoppedEvents, chapterI, paragraphs,
                   started, stopCalled, idleAtCall, uiSpeaks>>
    /\ UNCHANGED notTtsVars

NextTts ==
    \/ \E str \in ChapterContents : SpeakChapter(str)
    \/ ChapterContinues
    \/ ChapterResumes
    \/ UiSpeak
    \/ Stop
    \/ \E o \in Speakers : StopResolves(o)
    \/ \E o \in Speakers : SpeakStarts(o)
    \/ UtteranceStarts
    \/ UtteranceDone
    \/ \E o \in Speakers : UtteranceStopped(o)
    \/ Pause
    \/ Resume

-----------------------------------------------------------------------------
(* executeJsRule(code, context, html).  The snippet becomes the body of    *)
(* `new Function(...argNames, code)`: a name it uses is looked up among    *)
(* the parameters and, when it is none of them, in the global object of    *)
(* the host.  A snippet is modelled by whether it parses and by the names  *)
(* it uses in order, each read or called with one literal argument; it     *)
(* returns the value of the last.                                          *)

\* the fields of `sandbox` taken from the context
ContextNames == {"result", "baseUrl", "book", "chapter", "source", "page", "key"}

\* the fields of `sandbox` spread from createSandboxUtils
HelperNames ==
    {"$", "text", "html", "attr", "all", "absUrl", "encodeUri", "decodeUri", "base64Encode",
     "base64Decode", "timeFormat", "match", "replace", "log"}

\* Object.keys(sandbox)
argNames == ContextNames \cup HelperNames

\* names of the global object of the host that the services themselves use
HostGlobals == {"fetch", "globalThis", "console", "Buffer"}

\* where a free name of the function body is found
Resolve(name) ==
    IF name \in argNames THEN "sandbox"
    ELSE IF name \in HostGlobals THEN "global"
    ELSE "none"

Use(name, call, literal) == [name |-> name, call |-> call, arg |-> literal]

Snippets ==
    { [parses |-> FALSE, uses |-> <<>>],
      [parses |-> TRUE, uses |-> <<>>],
      [parses |-> TRUE, uses |-> <<Use("result", FALSE, <<>>)>>],
      [parses |-> TRUE, uses |-> <<Use("page", FALSE, <<>>), Use("key", FALSE, <<>>)>>],
      [parses |-> TRUE, uses |-> <<Use("key", TRUE, <<>>)>>],
      [parses |-> TRUE, uses |-> <<Use("text", TRUE, <<".t">>)>>],
      [parses |-> TRUE, uses |-> <<Use("absUrl", TRUE, <<"/", "p">>)>>],
      [parses |-> TRUE, uses |-> <<Use("baseUrl", FALSE, <<>>),
                                   Use("encodeUri", TRUE, <<"a", " ", "b">>)>>],
      [parses |-> TRUE, uses |-> <<Use("undefinedName", FALSE, <<>>)>>],
      [parses |-> TRUE, uses |-> <<Use("globalThis", FALSE, <<>>)>>],
      [parses |-> TRUE, uses |-> <<Use("key", FALSE, <<>>),
                                   Use("fetch", TRUE, <<"http:", "//", "x.test", "/", "c">>)>>] }

JsContexts ==
    { NoContext,
      [NoContext EXCEPT !.result = <<"r">>, !.key = <<"k">>],
      [result |-> <<"r">>, baseUrl |-> <<"http:", "//", "h.test", "/", "d", "/", "f">>,
       page |-> 2, key |-> <<"k">>] }

JsDocs == {<<>>} \cup {<<el>> : el \in ElemPool}

\* a function value, a promise and the global object, as String() shows them
FunctionValue == <<"function">>

PromiseValue == <<"[object Promise]">>

GlobalValue == <<"[object global]">>

\* text(selector): $(selector).text().trim()
SandboxText(doc, sel) ==
    LET ElText(el) == TextOf(el.html)
    IN  Trim(Flatten(MapSeq(Select(doc, sel), ElText)))

\* absUrl(url)
SandboxAbsUrl(url, base) ==
    IF url = <<>> \/ StartsWithHttp(url) THEN url
    ELSE IF NewUrl(url, base).ok THEN NewUrl(url, base).href
    ELSE url

\* the value bound to a parameter of the function
SandboxValue(name, ctx) ==
    CASE name = "result" -> ctx.result
      [] name = "baseUrl" -> ctx.baseUrl
      [] name = "page" -> <<ToString(IF ctx.page = 0 THEN 1 ELSE ctx.page)>>
      [] name = "key" -> ctx.key
      [] name \in HelperNames -> FunctionValue
      [] OTHER -> <<>>

\* evaluating one use of a name: [threw, value, request]
Evaluate(u, ctx, doc) ==
    CASE Resolve(u.name) = "none" -> [threw |-> TRUE, value |-> <<>>, request |-> <<>>]
      [] Resolve(u.name) = "global" ->
             IF ~u.call THEN [threw |-> FALSE, value |-> GlobalValue, request |-> <<>>]
             ELSE IF u.name = "fetch"
             THEN [threw |-> FALSE, value |-> PromiseValue, request |-> <<u.arg>>]
             ELSE [threw |-> TRUE, value |-> <<>>, request |-> <<>>]
      [] OTHER ->
             IF ~u.call
             THEN [threw |-> FALSE, value |-> SandboxValue(u.name, ctx), request |-> <<>>]
             ELSE IF u.name \notin HelperNames
             THEN [threw |-> TRUE, value |-> <<>>, request |-> <<>>]
             ELSE [threw |-> FALSE,
                   value |-> CASE u.name = "text" -> SandboxText(doc, u.arg)
                               [] u.name = "absUrl" -> SandboxAbsUrl(u.arg, ctx.baseUrl)
                               [] u.name = "encodeUri" -> encodeURIComponent(u.arg)
                               [] OTHER -> <<>>,
                   request |-> <<>>]

\* what executeJsRule returns from its catch
JsNull == <<"null">>

InitJs ==
    /\ jsCode \in Snippets
    /\ jsContext \in JsContexts
    /\ jsHtml \in JsDocs
    /\ jsPc = "idle"
    /\ jsAt = 0
    /\ jsReached = <<>>
    /\ jsRequests = <<>>
    /\ jsResult = <<>>
    /\ CoreIdle
    /\ ConcIdle
    /\ ReaderIdle
    /\ SearchIdle
    /\ TtsIdle

\* executeJsRule up to fn(...argValues): the utils and the sandbox are built
\* and the function is constructed, a SyntaxError being caught
BuildSandbox ==
    /\ jsPc = "idle"
    /\ IF jsCode.parses
       THEN jsPc' = "running" /\ jsAt' = 1 /\ UNCHANGED jsResult
       ELSE jsPc' = "returned" /\ jsResult' = JsNull /\ UNCHANGED jsAt
    /\ UNCHANGED <<jsCode, jsContext, jsHtml, jsReached, jsRequests>>
    /\ UNCHANGED notJsVars

\* the function body evaluates its next name; an error is caught
EvalUse(r) ==
    /\ jsPc = "running"
    /\ jsAt <= Len(jsCode.uses)
    /\ jsReached' = Append(jsReached, [name |-> jsCode.uses[jsAt].name,
                                       scope |-> Resolve(jsCode.uses[jsAt].name)])
    /\ jsRequests' = jsRequests \o r.request
    /\ IF r.threw
       THEN jsPc' = "returned" /\ jsResult' = JsNull /\ UNCHANGED jsAt
       ELSE jsAt' = jsAt + 1 /\ jsResult' = r.value /\ UNCHANGED jsPc
    /\ UNCHANGED <<jsCode, jsContext, jsHtml>>
    /\ UNCHANGED notJsVars

EvalNext ==
    /\ jsPc = "running"
    /\ jsAt <= Len(jsCode.uses)
    /\ EvalUse(Evaluate(jsCode.uses[jsAt], jsContext, jsHtml))

\* return fn(...argValues)
JsReturns ==
    /\ jsPc = "running"
    /\ jsAt > Len(jsCode.uses)
    /\ jsPc' = "returned"
    /\ UNCHANGED <<jsCode, jsContext, jsHtml, jsAt, jsReached, jsRequests, jsResult>>
    /\ UNCHANGED notJsVars

NextJs ==
    \/ BuildSandbox
    \/ EvalNext
    \/ JsReturns

-----------------------------------------------------------------------------
(* Specifications *)

SpecRule == InitRule /\ [][NextRule]_vars

SpecUrl == InitUrl /\ [][NextUrl]_vars

SpecTpl == InitTpl /\ [][NextTpl]_vars

SpecPipe == InitPipe /\ [][NextPipe]_vars

\* what the runtime guarantees once a call is under way: an armed timer
\* fires unless it is cleared first, and the database write settles.
\* Nothing makes the network deliver the headers or the body.
PipeFairness ==
    /\ WF_vars(TimeoutAborts)
    /\ WF_vars(RecordSucceeds \/ RecordFails)

SpecPipeFair == SpecPipe /\ PipeFairness

SpecImport == InitImport /\ [][NextImport]_vars

SpecConc == InitConc /\ [][NextConc]_vars

SpecReader == InitReader /\ [][NextReader]_vars

SpecSearch == InitSearch /\ [][NextSearch]_vars

SpecTts == InitTts /\ [][NextTts]_vars

SpecJs == InitJs /\ [][NextJs]_vars

-----------------------------------------------------------------------------
(* Properties of the rule engine *)

GSL(rule) == getStringList(content, baseUrl, rule)

\* C4: for a rule "a||b" getStringList returns the result of the first
\* alternative that yields something: that of a when it is non-empty,
\* otherwise exactly getStringList(b); [] when every alternative is empty.
C4_OrFallsThrough ==
    (ruleOp = "getStringList" /\ comb = "||") =>
        results = IF GSL(PartText(ruleA)) # <<>>
                  THEN GSL(PartText(ruleA))
                  ELSE GSL(PartText(ruleB))

\* a matches nothing, b does, and the call returned b's strings
C4_Witness ==
    /\ ruleOp = "getStringList"
    /\ comb = "||"
    /\ ruleA.sel = <<".missing">>
    /\ GSL(PartText(ruleA)) = <<>>
    /\ results # <<>>
    /\ results = GSL(PartText(ruleB))

\* C5: for a rule "a&&b" without "||" getStringList returns getStringList(a)
\* followed by getStringList(b), duplicates kept.
C5_AndConcatenates ==
    (/\ ruleOp = "getStringList"
     /\ comb = "&&"
     /\ ~Includes(ruleStr, "||")) =>
        results = GSL(PartText(ruleA)) \o GSL(PartText(ruleB))

\* both sides are non-empty and share a string, which appears twice
C5_Witness ==
    /\ ruleOp = "getStringList"
    /\ comb = "&&"
    /\ ~Includes(ruleStr, "||")
    /\ ruleA \in CssRules
    /\ GSL(PartText(ruleA)) # <<>>
    /\ GSL(PartText(ruleB)) # <<>>
    /\ \E i \in 1..Len(results) : \E j \in 1..Len(results) :
           i < j /\ results[i] = results[j]

\* the pattern and the replacement of a clause ##pattern##replacement
ClausePattern(c) == Split(c, "##")[2]

ClauseReplacement(c) == Split(c, "##")[3]

\* C6: a rule <selector>##<pattern>##<replacement>, with or without a mode
\* prefix, yields the strings <selector> extracts in that mode, each with every
\* match of <pattern> replaced by <replacement> (blank results dropped).
C6_RegexClauseAnyPrefix ==
    (/\ ruleOp = "getStringList"
     /\ comb = "none"
     /\ ruleA \in CssRules
     /\ Len(Split(ruleA.clause, "##")) = 3) =>
        LET R(r) == ReplaceAll(r, ClausePattern(ruleA.clause),
                               ClauseReplacement(ruleA.clause))
        IN  results = SelectSeq(
                MapSeq(GSL(ruleA.prefix \o ruleA.sel \o ruleA.suffix), R), NotBlank)

\* C7 as claimed: every CSS/default-mode rule without @suffix extracts what
\* the same rule followed by "@text" extracts.
C7_NoSuffixIsText ==
    (/\ ruleOp = "getStringList"
     /\ ruleA \in CssRules
     /\ ~Includes(ruleStr, "@")) =>
        results = GSL(ruleStr \o <<"@", "text">>)

\* C7 amended: every CSS/default-mode rule without @suffix and without a
\* ## clause extracts what the same rule followed by "@text" extracts, the
\* trimmed text of each matched element.
C7_NoSuffixNoClauseIsText ==
    (/\ ruleOp = "getStringList"
     /\ ruleA \in CssRules
     /\ ~Includes(ruleStr, "@")
     /\ ~Includes(ruleStr, "##")) =>
        results = GSL(ruleStr \o <<"@", "text">>)

\* a rule without suffix and clause matched an element whose inner HTML is
\* not its trimmed text
C7_Witness ==
    /\ ruleOp = "getStringList"
    /\ comb = "none"
    /\ ruleA \in CssRules
    /\ ruleA.suffix = <<>>
    /\ ruleA.clause = <<>>
    /\ results # <<>>
    /\ \E i \in 1..Len(content) :
           /\ Matches(content[i], ruleA.sel)
           /\ content[i].html # Trim(TextOf(content[i].html))
           /\ \E j \in 1..Len(results) : results[j] = Trim(TextOf(content[i].html))

-----------------------------------------------------------------------------
(* Properties of getAbsoluteUrl *)

IsHttpUrl(u) == Len(u) >= 2 /\ u[1] \in {"http:", "https:"} /\ u[2] = "//"

\* C8: getAbsoluteUrl never throws, a second application returns what the
\* first returned, and a url starting with http:// or https:// is returned
\* unchanged; for both implementations and every base.
C8_AbsoluteUrlIdempotent ==
    /\ ~urlThrew
    /\ (urlApplied >= 2 => urlOut = urlOnce)
    /\ (urlApplied >= 1 /\ IsHttpUrl(urlIn) => urlOnce = urlIn)

\* a path relative to the site was resolved against a usable base, and
\* resolving the result again changed nothing
C8_Witness ==
    /\ urlApplied = 2
    /\ urlIn # <<>>
    /\ urlIn[1] = "/"
    /\ urlBase # <<>>
    /\ urlOnce # urlIn
    /\ IsHttpUrl(urlOnce)
    /\ urlOut = urlOnce

-----------------------------------------------------------------------------
(* Properties of the URL template expander *)

\* every placeholder of the template replaced in one pass
ExpandOnce(str, k, p) ==
    LET One(lex) ==
            IF lex \in KeyPlaceholders THEN encodeURIComponent(k)
            ELSE IF lex \in PagePlaceholders THEN <<ToString(p)>>
            ELSE IF lex \in PageMarkers THEN <<ToString(MarkerStart(lex) + (p - 1))>>
            ELSE <<lex>>
    IN  Flatten(MapSeq(str, One))

HasPostDirective(template) == Includes(template, "@") \/ Includes(template, ",{")

\* C9: for a template without POST directive, every keyword and every page,
\* analyze() returns a GET request without body whose URL has each keyword
\* placeholder replaced by exactly the URL-encoded keyword and each page
\* placeholder by the page number.
C9_PlaceholdersExpandExactly ==
    (tplOp = "analyze" /\ ~HasPostDirective(urlTemplate)) =>
        /\ request.method = "GET"
        /\ ~request.hasBody
        /\ request.url = ResolveTemplateUrl(ExpandOnce(urlTemplate, key, page), tplBase)

-----------------------------------------------------------------------------
(* Properties of the pipeline *)

\* the body of the response arrived: the fetch of the call succeeded
FetchSucceeded == outcome \in {"ok", "ruleError", "recordError"}

\* C1: no pipeline operation ever rejects to its caller, whatever the fetch
\* and the rules do, and a call that failed resolved to its empty result
\* ([] / null / [] / "").
C1_NoOperationRejects ==
    /\ pc # "rejected"
    /\ (pc = "returned" /\ outcome # "ok") => result = EmptyResult(op)

\* each kind of failure is reached and ends in a resolved call
C1_Witness ==
    /\ pc = "returned"
    /\ op = "getChapterContent"
    /\ outcome = "ruleError"
    /\ fetches = 1
    /\ result = <<>>

\* C2: every record searchBooks returns has a non-empty name and a
\* non-empty bookUrl.
C2_RecordsHaveNameAndUrl ==
    (op = "searchBooks" /\ pc = "returned") =>
        \A i \in 1..Len(result) : result[i].name # <<>> /\ result[i].bookUrl # <<>>

\* a search returned records and left out a matched element that lacks its
\* bookUrl although its name was extracted
C2_Witness ==
    /\ op = "searchBooks"
    /\ pc = "returned"
    /\ outcome = "ok"
    /\ Len(result) >= 1
    /\ Len(result) < Len(response)
    /\ \E i \in 1..Len(response) :
           /\ SearchBook(response, source, response[i]).book.name # <<>>
           /\ SearchBook(response, source, response[i]).book.bookUrl = <<>>

\* the name and the bookUrl of a matched element, each evaluated on its own
KeyOf(pg, src, el) ==
    [name |-> parseRule(pg, src.bookSourceUrl, src.ruleSearch.name, Context(el)).value,
     bookUrl |-> ParserAbsoluteUrl(
                     parseRule(pg, src.bookSourceUrl, src.ruleSearch.bookUrl,
                               Context(el)).value,
                     src.bookSourceUrl).value]

\* the matched elements whose name and bookUrl are both non-empty, in
\* document order
ValidKeys(pg, src) ==
    LET K(el) == KeyOf(pg, src, el)
    IN  SelectSeq(MapSeq(parseRuleList(pg, src.ruleSearch.bookList).value, K), IsValidBook)

\* C3: when the fetch succeeds searchBooks returns one record for each
\* matched element whose name and bookUrl are non-empty, in document order.
C3_OneRecordPerValidElement ==
    (op = "searchBooks" /\ pc = "returned" /\ FetchSucceeded) =>
        LET K(b) == [name |-> b.name, bookUrl |-> b.bookUrl]
        IN  MapSeq(result, K) = ValidKeys(response, source)

\* C10: the cleanup maps "<p>Hello</p><br><p>World</p>" to "Hello\nWorld",
\* and replaceRegex is applied to the cleaned string.
C10_CleanupExample ==
    (/\ op = "getChapterContent"
     /\ pc = "returned"
     /\ outcome = "ok"
     /\ extracted = ExampleHtml) =>
        result = ApplyReplaceRegex(<<"Hello", "\n", "World">>,
                                   source.ruleContent.replaceRegex)

\* C11: every pipeline call eventually returns: a response whose headers or
\* body have not arrived when the timeout elapses is aborted, so no call
\* stays pending on the network for ever.
C11_CallEventuallyReturns ==
    (pc \in {"fetching", "reading", "recording"}) ~> (pc = "returned")

\* the parts of a template url@body before and after its first "@"
BeforeAt(template) == SubSeq(template, 1, IndexOf(template, "@") - 1)

AfterAt(template) == SubSeq(template, IndexOf(template, "@") + 1, Len(template))

\* C12: for a search URL of the form url@body the request searchBooks sends
\* is a POST to the part before the first "@" whose body is everything after
\* the first "@", variables substituted, further "@" included.
C12_PostBodyAfterFirstAt ==
    (/\ op = "searchBooks"
     /\ fetches = 1
     /\ Includes(source.searchUrl, "@")
     /\ ~Includes(source.searchUrl, ",{")) =>
        /\ sent.method = "POST"
        /\ sent.url = ExpandOnce(BeforeAt(source.searchUrl), arg.keyword, 1)
        /\ sent.hasBody
        /\ sent.body = ExpandOnce(AfterAt(source.searchUrl), arg.keyword, 1)

\* C15: a rule S##P##R whose P or R contains "||" or "&&" is evaluated as the
\* single rule with selector S, regex P and replacement R: the result is the
\* strings S extracts, each with every match of P replaced by R.
C15_NoSplitInsideClause ==
    (/\ ruleOp = "getStringList"
     /\ comb = "none"
     /\ ruleA.prefix = <<>>
     /\ Len(Split(ruleA.clause, "##")) = 3
     /\ (Includes(ruleA.clause, "||") \/ Includes(ruleA.clause, "&&"))) =>
        LET R(r) == ReplaceAll(r, ClausePattern(ruleA.clause),
                               ClauseReplacement(ruleA.clause))
        IN  results = SelectSeq(MapSeq(GSL(ruleA.sel \o ruleA.suffix), R), NotBlank)

\* C22: whatever the rule (|| and && combinations and ## clauses included)
\* and the document, no string getStringList returns is empty or
\* whitespace-only, and on a document without elements the list is empty.
C22_NoBlankStrings ==
    ruleOp = "getStringList" =>
        /\ \A i \in 1..Len(results) : NotBlank(results[i])
        /\ content = <<>> => results = <<>>

\* a ## clause turned the string of one matched element into the empty
\* string, which was left out, and the string of another element was kept
C22_Witness ==
    /\ ruleOp = "getStringList"
    /\ comb = "none"
    /\ ruleA \in CssRules
    /\ ruleA.clause = <<"##", "foo", "##">>
    /\ results # <<>>
    /\ Len(results) < Len(GSL(ruleA.prefix \o ruleA.sel \o ruleA.suffix))

\* C14: a protocol-relative URL ("//host...") is resolved to an https: URL
\* whatever the scheme of the base URL, by both resolvers.
C14_ProtocolRelativeIsHttps ==
    (urlApplied >= 1 /\ Len(urlIn) >= 2 /\ urlIn[1] = "//") =>
        /\ ~urlThrew
        /\ urlOnce = <<"https:">> \o urlIn

\* C16: when the rule of one field (here ruleSearch.author) has a selector
\* syntax error, only that field is empty: the search still returns one record
\* for each matched element with a name and a bookUrl.
C16_BadFieldRuleOnlyEmptiesField ==
    (/\ op = "searchBooks"
     /\ pc = "returned"
     /\ outcome \in {"ok", "ruleError"}
     /\ source.ruleSearch.author = <<"[">>
     /\ ~parseRuleList(response, source.ruleSearch.bookList).threw) =>
        LET K(b) == [name |-> b.name, bookUrl |-> b.bookUrl]
        IN  /\ MapSeq(result, K) = ValidKeys(response, source)
            /\ \A i \in 1..Len(result) : result[i].author = <<>>

\* the required configuration of the call is missing
Unconfigured ==
    CASE op = "searchBooks" ->
             \/ source.searchUrl = <<>>
             \/ ~source.ruleSearch.defined
             \/ source.ruleSearch.bookList = <<>>
      [] op = "getBookInfo" -> ~source.ruleBookInfo.defined
      [] op = "getBookToc" -> ~source.ruleToc.defined
      [] op = "getChapterContent" -> ~source.ruleContent.defined

\* C17: a call whose required configuration is missing (search without
\* searchUrl or ruleSearch.bookList, getBookInfo without ruleBookInfo,
\* getBookToc without ruleToc, getChapterContent without ruleContent) issues
\* no network request and returns its empty result.
C17_UnconfiguredNeverFetches ==
    Unconfigured =>
        /\ fetches = 0
        /\ pc \in {"idle", "returned"}
        /\ pc = "returned" => result = EmptyResult(op)

\* the calls of updateSourceRespondTime made so far: those that wrote, and
\* the one whose rejection ended the call
RespondTimeCalls == respondWrites + (IF outcome = "recordError" THEN 1 ELSE 0)

\* C18: each of the four operations calls updateSourceRespondTime once after
\* its network round trip has completed (stated for the calls whose
\* extraction did not throw).
C18_RespondTimeAfterEveryRoundTrip ==
    /\ RespondTimeCalls <= 1
    /\ (pc = "returned" /\ outcome \in {"ok", "recordError"}) => RespondTimeCalls = 1

\* C19: the chapters getBookToc returns carry the indices 0, 1, ..., n-1 in
\* order, and the id of each is bookId_index, also when matched elements were
\* dropped for a missing title or url.
C19_ChapterIndexIsPosition ==
    (op = "getBookToc" /\ pc = "returned") =>
        \A i \in 1..Len(result) :
            /\ result[i].index = i - 1
            /\ result[i].id = <<arg.bookId, "_", ToString(i - 1)>>

RECURSIVE ApplyWellFormedPairs(_, _)
\* every pair whose pattern compiles applied as a global substitution, left
\* to right; a pair whose pattern does not compile is passed over
ApplyWellFormedPairs(str, pairs) ==
    IF pairs = <<>> THEN str
    ELSE LET parts == Split(Head(pairs), "@@")
             replacement == IF Len(parts) >= 2 THEN parts[2] ELSE <<>>
         IN  IF parts[1] = <<>> \/ ~RegExpCompiles(parts[1])
             THEN ApplyWellFormedPairs(str, Tail(pairs))
             ELSE ApplyWellFormedPairs(ReplaceAll(str, parts[1], replacement), Tail(pairs))

\* C20: getChapterContent applies every pattern@@replacement pair of
\* replaceRegex to the cleaned content, left to right; a pair whose pattern
\* does not compile neither stops the others from being applied nor makes
\* the call fail.
C20_EveryWellFormedPairApplied ==
    (/\ op = "getChapterContent"
     /\ pc = "returned"
     /\ FetchSucceeded
     /\ ~SelectorThrows(source.ruleContent.content)) =>
        /\ outcome = "ok"
        /\ result = ApplyWellFormedPairs(CleanContent(extracted),
                                         Split(source.ruleContent.replaceRegex, "##"))

\* C29: when the fetch and the extraction of a search succeed, searchBooks
\* returns the extracted books whether or not the write of the response time
\* succeeds.
C29_RespondTimeFailureKeepsBooks ==
    (op = "searchBooks" /\ pc = "returned" /\ outcome \in {"ok", "recordError"}) =>
        result = books

-----------------------------------------------------------------------------
(* Properties of the import *)

\* an entry that is a book source and whose row can be written
WellFormed(e) == ~e.isNull /\ IsBookSource(e) /\ e.persists

\* C13: an import stores every well-formed entry of the array, wherever it
\* stands relative to the malformed ones, and returns the number stored.
C13_ImportsEveryWellFormedEntry ==
    imPc = "done" =>
        LET N(e) == e.name
        IN  /\ stored = MapSeq(SelectSeq(json, WellFormed), N)
            /\ count = Len(stored)

-----------------------------------------------------------------------------
(* Properties of concurrent calls *)

\* what a call returns when it runs alone on its page
Alone(c) == SearchBooksOf(callPage[c], callSource[c]).value

\* C21: in every interleaving of concurrent calls, a call that returned
\* resolved to what it produces when run alone on the same response (and to
\* [] when it failed).
C21_CallsAreIsolated ==
    \A c \in Calls :
        callPc[c] = "returned" =>
            callResult[c] = IF callOutcome[c] = "ok" THEN Alone(c) ELSE <<>>

\* two calls with different results alone overlapped: the second one
\* extracted while the first awaited its write, and both returned their own
C21_Witness ==
    /\ callPc[1] = "returned" /\ callOutcome[1] = "ok"
    /\ callPc[2] = "recording"
    /\ callResult[1] # <<>>
    /\ bookLists[OwnBinding(2)] # <<>>
    /\ bookLists[OwnBinding(2)] # callResult[1]
    /\ callResult[1] = Alone(1)

-----------------------------------------------------------------------------
(* Properties of the reader store *)

\* no loadChapter call is between two of its awaits
NoLoadPending == \A f \in DOMAIN loads : ~Pending(loads[f])

\* C23: deleting a BookSource deletes no book and no chapter; a load of an
\* uncached chapter of a book whose source row is gone completes without
\* throwing, shows the failure placeholder and leaves loading false.
C23_OrphanedSourceDegrades ==
    /\ bookRows = {TheBook.id}
    /\ chapterRows = {0, 1}
    /\ \A f \in DOMAIN loads :
           (loads[f].sourceNull /\ loads[f].pc \in {"done", "threw"}) =>
               /\ loads[f].pc = "done"
               /\ lastSetter = f => readerContent = Placeholder
               /\ NoLoadPending => ~loading

\* the source was deleted, then the book was opened: its load is over
C23_Witness ==
    /\ sourceRows = {}
    /\ Len(loads) = 1
    /\ loads[1].index = 0
    /\ loads[1].sourceNull
    /\ loads[1].pc = "done"
    /\ readerContent = Placeholder
    /\ ~loading
    /\ cacheReads = 1

\* C26: whenever no loadChapter call is pending, the content shown is that
\* of the chapter at currentChapterIndex, or the failure placeholder.
C26_ShownIsCurrentChapter ==
    (NoLoadPending /\ lastSetter # 0) =>
        readerContent \in {ChapterText(currentChapterIndex),
                           applyReplaceRules(ChapterText(currentChapterIndex)),
                           Placeholder}

\* C27: the content a load shows for an online chapter has the replace rules
\* applied if and only if useReplaceRule is true at the time of the load (the
\* setting never having changed while a load was pending), whatever loads
\* and setting changes came before it.
C27_ShownReflectsReplaceSetting ==
    \A f \in DOMAIN loads :
        (/\ ~configRaced
         /\ lastSetter = f
         /\ loads[f].pc = "progress"
         /\ readerContent # Placeholder) =>
            readerContent = IF useReplaceRule
                            THEN applyReplaceRules(ChapterText(loads[f].index))
                            ELSE ChapterText(loads[f].index)

\* a call with nothing to do: loadChapter with no book or an index outside
\* 0 .. chapters.length-1, nextChapter on the last chapter, prevChapter on
\* the first
VoidCall ==
    \/ \E index \in -1..Len(BookChapters) :
           /\ readerBook = NoBook \/ index < 0 \/ index > Len(readerChapters) - 1
           /\ LoadChapter(index)
    \/ currentChapterIndex >= Len(readerChapters) - 1 /\ NextChapter
    \/ currentChapterIndex <= 0 /\ PrevChapter

\* C30: such a call leaves currentChapterIndex, currentChapter, content,
\* loading and the persisted read progress unchanged and makes no cache
\* lookup and no fetch.
C30_VoidCallsChangeNothing ==
    [][VoidCall =>
           UNCHANGED <<currentChapterIndex, currentChapter, readerContent, loading,
                       durChapterIndex, cacheReads, chapterFetches>>]_vars

\* with the book open, loadChapter(chapters.length) and a prevChapter on the
\* first chapter were called
C30_Witness ==
    /\ readerBook # NoBook
    /\ Len(loads) = MaxLoads
    /\ \E f \in DOMAIN loads :
           \/ loads[f].pc = "noop" /\ loads[f].via = "loadChapter"
                                   /\ loads[f].index = Len(readerChapters)
           \/ loads[f].pc = "noop" /\ loads[f].via = "prevChapter"

-----------------------------------------------------------------------------
(* Properties of the search store *)

\* C25: once search() has been called again, or clear() has been called,
\* results holds only books produced by the latest search, and no book after
\* clear(): a late response of an earlier search puts no book into results.
C25_ResultsOfLatestSearchOnly ==
    \A i \in DOMAIN searchResults : searchResults[i].by = latest

-----------------------------------------------------------------------------
(* Properties of the TTS service *)

\* C28: speakChapter called while the service is idle, stop() never being
\* called, has on return started the paragraphs 0, 1, ..., n-1 of the
\* content, in this order and none left out.
C28_EveryParagraphStarted ==
    (chapterPc = "returned" /\ idleAtCall /\ ~stopCalled) =>
        started = [i \in 1..Len(paragraphs) |-> i - 1]

-----------------------------------------------------------------------------
(* Properties of executeJsRule *)

\* C24: every name a snippet uses is bound to a field of the context or to a
\* helper of the sandbox, so the snippet reaches no other host object and
\* makes no network request.
C24_SnippetStaysInSandbox ==
    /\ \A i \in DOMAIN jsReached : jsReached[i].scope = "sandbox"
    /\ jsRequests = <<>>

====
